---- MODULE Spec2Model ----
(***************************************************************************)
(* A model of the Malaysia prayer-time MCP server (package waktu_solat):   *)
(* the sliding-window rate limiter (server.py), the TTL cache (cache.py)   *)
(* and the stdio request dispatcher (server.py).                           *)
(*                                                                         *)
(* Time is the value time.time() returns, counted in whole units.          *)
(* The specifications share the variables:                                 *)
(*   SpecRL      RateLimiter.is_allowed called by any client at any time   *)
(*   SpecCache   Cache.get / set / delete / clear called at any time       *)
(*   Spec        WaktuSolatServer.run with its handlers, limiter and cache *)
(*   SpecLive    Spec over three lines, with fairness                      *)
(*   SpecClient  HTTPClient._request and get_prayer_times                  *)
(*   SpecZones   HTTPClient.get_zones                                      *)
(*   SpecCurrent HTTPClient.get_current_prayer                             *)
(*   SpecTools   the three tool handlers                                   *)
(*   SpecCached  the cached() wrapper of the three operations              *)
(*   SpecPool    two units of work sharing the global HTTP client          *)
(*   SpecMain    main() around the server                                  *)
(*   SpecThreads two threads calling the operations of one Cache           *)
(*   SpecArgs    Cache.set with every kind of ttl, given and defaulted     *)
(*   SpecGate    the dispatcher with time passing, for the rate limiter    *)
(***************************************************************************)
EXTENDS Integers, Sequences, FiniteSets, TLC

(***************************************************************************)
(* Bounds of the model.  RateLimiter and Cache take their sizes as fields  *)
(* (requests_per_minute, window_size; config.cache.max_size); the server   *)
(* builds RateLimiter(requests_per_minute=60) with window_size 60 and the  *)
(* default max_size is 1000.  The model checks small instances of them.    *)
(***************************************************************************)
MaxTime == 2
requests_per_minute == 2
window_size == 2
max_size == 2

None == "None"

ClientIds == {"default", "c1"}
Keys == {<<"k1">>, <<"k2">>, <<"k3">>}
Values == {"v1", "v2"}
TTLs == {1, 2}

VARIABLES
  now,        \* time.time()
  requests,   \* RateLimiter._requests: client_id -> list of accepted instants
  rlHist,     \* history: client_id -> every instant a call was allowed at
  rlLast,     \* history: the last is_allowed call and what it returned
  store,      \* Cache._store in dict order: sequence of [key, value, expires_at]
  order,      \* history: keys of the store's entries, oldest insertion first
  cSet,       \* history: the set() no cache operation has followed yet, or NoSet
  cLast,      \* history: the last cache operation and what it did
  pc,         \* where WaktuSolatServer.run is
  shutdown,   \* shutdown_event.is_set()
  idle,       \* connection_idle_count
  nlines,     \* history: number of non-empty lines readline gave to the loop
  stale,      \* readline calls abandoned by a timeout, still blocked on stdin
  cur,        \* the request of request_task
  tpc,        \* where request_task is
  tres,       \* what request_task returned or raised
  active,     \* active_requests
  hpc,        \* where health_check_task is
  httpClient, \* client._client: "open", "closed" (aclose() called) or "none"
  nout,       \* history: number of lines written to stdout
  lastOut,    \* the last line written to stdout
  flight,     \* history: a signal found a request unit in flight
  sawBad,     \* history: the loop has answered a line with a bare error line
  eof,        \* stdin (a pipe, not a terminal) is at end of input
  cpc,        \* where a call of HTTPClient.get_prayer_times is
  czone,      \* the zone argument of the call
  attempt,    \* the loop variable of HTTPClient._request
  tries,      \* history: how each HTTP attempt of the call ended
  lastBody,   \* history: the body of the 2xx response the call received
  data,       \* what _request returned
  result,     \* what get_prayer_times returned or raised
  clock,      \* datetime.now() of a get_current_prayer call: minute of the day
  tool,       \* the last call of a tool handler and what it returned
  callers,    \* the callers of the cached operations: where each one is
  nticks,     \* history: how often time has advanced between their steps
  ncalls,     \* history: number of upstream computations started
  kept,       \* history: per key, the last stored result while it is not evicted
  scopes,     \* the units of work inside `async with client`: where each one is
  mpc,        \* where main() is
  env,        \* what the configuration sources hold when main() loads them
  restarts,   \* history: number of times main()'s loop has started over
  exitCode,   \* the argument of sys.exit, -1 while the process runs
  threads,    \* the threads calling the cache: where each one is in its call
  lock,       \* Cache._lock: the thread that holds it, or None
  cfgTtl      \* Cache._ttl, read from config.cache.ttl at construction

rlVars == <<requests, rlHist, rlLast>>
cacheVars == <<store, order, cSet, cLast>>
srvVars == <<pc, shutdown, idle, nlines, stale, cur, tpc, tres, active, hpc,
             httpClient, nout, lastOut, flight, sawBad, eof>>
clientVars == <<cpc, czone, attempt, tries, lastBody, data, result>>
thVars == <<threads, lock, cfgTtl>>
opVars == <<clock, tool, callers, nticks, ncalls, kept, scopes, mpc, env,
           restarts, exitCode, thVars>>
vars == <<now, rlVars, cacheVars, srvVars, clientVars, opVars>>

(***************************************************************************)
(* RateLimiter (server.py 44-69)                                           *)
(***************************************************************************)
\* line 60 with the comparison turned: an instant exactly window_size old stays
InWindowInclusive(t, x) == t - x <= window_size

\* line 60: the filter `now - t < self.window_size`
InWindow(t, x) == t - x < window_size

\* line 64: `len(self._requests[client_id]) >= self.requests_per_minute`
OverLimit(n) == n >= requests_per_minute

\* lines 55-61: the client's bucket (created empty when absent), old instants dropped
Pruned(reqs, c, t) ==
  LET b == IF c \in DOMAIN reqs THEN reqs[c] ELSE <<>>
  IN  SelectSeq(b, LAMBDA x : InWindow(t, x))

\* lines 64-69: the value is_allowed returns
IsAllowed(reqs, c, t) == ~OverLimit(Len(Pruned(reqs, c, t)))

\* lines 64-68 appending before the check: a rejected call is recorded too
RequestsAfterRecorded(reqs, c, t) ==
  LET b == Append(Pruned(reqs, c, t), t)
  IN  [x \in DOMAIN reqs \cup {c} |-> IF x = c THEN b ELSE reqs[x]]

\* lines 55-68: _requests after the call
RequestsAfter(reqs, c, t) ==
  LET p == Pruned(reqs, c, t)
      b == IF IsAllowed(reqs, c, t) THEN Append(p, t) ELSE p
  IN  [x \in DOMAIN reqs \cup {c} |-> IF x = c THEN b ELSE reqs[x]]

\* the number of instants of h that a call at time t still counts
CountInWindow(h, t) == Cardinality({i \in DOMAIN h : t - h[i] < window_size})

\* the effect of is_allowed(c) at time now on the limiter
RLStep(c) ==
  /\ requests' = RequestsAfter(requests, c, now)
  /\ rlLast' = [client |-> c, at |-> now, allowed |-> IsAllowed(requests, c, now),
                before |-> CountInWindow(rlHist[c], now)]
  /\ rlHist' = IF IsAllowed(requests, c, now)
               THEN [rlHist EXCEPT ![c] = Append(@, now)]
               ELSE rlHist

\* is_allowed(c) called at time now
RLCall(c) ==
  /\ RLStep(c)
  /\ UNCHANGED <<now, cacheVars, srvVars, clientVars, opVars>>

\* time passes between two calls
RLTick ==
  /\ now < MaxTime
  /\ now' = now + 1
  /\ UNCHANGED <<rlVars, cacheVars, srvVars, clientVars, opVars>>

(***************************************************************************)
(* Cache (cache.py 36-132)                                                 *)
(***************************************************************************)
\* no set() is pending a get()
NoSet == [key |-> <<>>, value |-> None, at |-> 0, ttl |-> 0]

KeysOf(s) == {s[i].key : i \in DOMAIN s}

IndexOf(s, k) == CHOOSE i \in DOMAIN s : s[i].key = k

Without(s, ks) == SelectSeq(s, LAMBDA e : e.key \notin ks)

\* lines 50 and 85 with the comparison turned: an entry lives one instant longer
ExpiredStrict(e, t) == e.expires_at < t

\* lines 50 and 85: `entry.expires_at <= now`
Expired(e, t) == e.expires_at <= t

\* lines 46-55 deleting nothing: an expired entry is only hidden
CleanExpiredNever(s, t) == s

\* lines 46-55: every expired entry is deleted
CleanExpired(s, t) == SelectSeq(s, LAMBDA e : ~Expired(e, t))

\* line 61
NumToRemove == IF max_size \div 10 > 1 THEN max_size \div 10 ELSE 1

\* line 62 without the key: the entries are taken in dict order
RankByPosition(s, i) == i - 1

\* line 62: sorted() is stable, so entries of equal expires_at keep dict order;
\* Rank(s, i) is the number of entries sorted before entry i
Rank(s, i) ==
  Cardinality({j \in DOMAIN s :
     \/ s[j].expires_at < s[i].expires_at
     \/ (s[j].expires_at = s[i].expires_at /\ j < i)})

\* lines 62-63: the keys of sorted_items[:num_to_remove]
EvictedKeys(s) == {s[i].key : i \in {j \in DOMAIN s : Rank(s, j) < NumToRemove}}

\* line 59 with the comparison turned: eviction starts one entry too late
AtCapacityStrict(s) == Len(s) > max_size

\* line 59: `len(self._store) >= self._max_size`
AtCapacity(s) == Len(s) >= max_size

\* lines 57-65
EnsureCapacity(s) == IF AtCapacity(s) THEN Without(s, EvictedKeys(s)) ELSE s

\* line 114 as setdefault: a key already there keeps its entry
PutIfAbsent(s, k, v, exp) ==
  LET e == [key |-> k, value |-> v, expires_at |-> exp]
  IN  IF k \in KeysOf(s) THEN s ELSE Append(s, e)

\* line 114: assignment to a dict key keeps the position of a key already there
Put(s, k, v, exp) ==
  LET e == [key |-> k, value |-> v, expires_at |-> exp]
  IN  IF k \in KeysOf(s) THEN [s EXCEPT ![IndexOf(s, k)] = e] ELSE Append(s, e)

\* keys of `ord` restricted to those still stored in s
Kept(ord, s) == SelectSeq(ord, LAMBDA k : k \in KeysOf(s))

\* Cache.get(k), lines 67-91.  time.time() is read in _clean_expired (now) and
\* again at line 85 (now + d).
GetStep(k, d) ==
  LET s1 == CleanExpired(store, now)
      hit == k \in KeysOf(s1)
      e == s1[IndexOf(s1, k)]
      dead == hit /\ Expired(e, now + d)
      s2 == IF dead THEN Without(s1, {k}) ELSE s1
  IN  /\ store' = s2
      /\ order' = Kept(order, s2)
      /\ cSet' = NoSet
      /\ cLast' = [op |-> "get", key |-> k, at |-> now + d,
                   ret |-> IF hit /\ ~dead THEN e.value ELSE None,
                   after |-> cSet]

Get(k) ==
  \E d \in {0, 1} :
    /\ now + d <= MaxTime
    /\ now' = now + d
    /\ GetStep(k, d)
    /\ UNCHANGED <<rlVars, srvVars, clientVars, opVars>>

\* Cache.set(k, v, ttl) with ttl > 0, lines 105-115.  time.time() is read in
\* _clean_expired (now) and again at line 113 (now + d).
SetStep(k, v, ttl, d) ==
  LET s1 == CleanExpired(store, now)
      s2 == EnsureCapacity(s1)
      s3 == Put(s2, k, v, now + d + ttl)
  IN  /\ store' = s3
      /\ order' = Append(SelectSeq(Kept(order, s2), LAMBDA x : x # k), k)
      /\ cSet' = [key |-> k, value |-> v, at |-> now + d, ttl |-> ttl]
      /\ cLast' = [op |-> "set", key |-> k,
                   before |-> Kept(order, s1),
                   evicted |-> KeysOf(s1) \ KeysOf(s2)]

Set(k, v, ttl) ==
  \E d \in {0, 1} :
    /\ now + d <= MaxTime
    /\ now' = now + d
    /\ SetStep(k, v, ttl, d)
    /\ UNCHANGED <<rlVars, srvVars, clientVars, opVars>>

\* Cache.delete(k), lines 117-126
Delete(k) ==
  /\ store' = Without(store, {k})
  /\ order' = Kept(order, store')
  /\ cSet' = NoSet
  /\ cLast' = [op |-> "delete", key |-> k]
  /\ UNCHANGED <<now, rlVars, srvVars, clientVars, opVars>>

\* Cache.clear(), lines 128-132
Clear ==
  /\ store' = <<>>
  /\ order' = <<>>
  /\ cSet' = NoSet
  /\ cLast' = [op |-> "clear"]
  /\ UNCHANGED <<now, rlVars, srvVars, clientVars, opVars>>

\* time passes between two cache operations
CacheTick ==
  /\ now < MaxTime
  /\ now' = now + 1
  /\ UNCHANGED <<cacheVars, rlVars, srvVars, clientVars, opVars>>

(***************************************************************************)
(* Cache called from several threads (cache.py 44, 67-132)                 *)
(***************************************************************************)
DefaultTTL == 3600

Threads == {"t1", "t2"}
ThreadKeys == {<<"k1">>, <<"k2">>}
ThreadOps == {"get", "set", "delete", "clear"}

\* each thread writes a value of its own
ValueWrittenBy(t) == IF t = "t1" THEN "v1" ELSE "v2"

\* a thread that is not in a call of the cache
NoThread == [pc |-> "idle", op |-> "none", key |-> <<>>, value |-> None,
             ttl |-> 0, snap |-> <<>>, at |-> 0, ret |-> None]

\* the statements inside `with self._lock`
InCritical(t) == threads[t].pc \in {"clean", "capacity", "put", "lookup", "pop", "wipe", "release"}

\* `with self._lock` entered whoever holds the lock
CanAcquireAlways(t) == TRUE

\* lines 77, 108, 124, 130: `with self._lock` on an RLock waits while another
\* thread holds it
CanAcquire(t) == lock \in {None, t}

\* what the thread actions leave alone
ThreadFrame ==
  UNCHANGED <<rlVars, order, cSet, cLast, srvVars, clientVars, clock, tool,
              callers, nticks, ncalls, kept, scopes, mpc, env, restarts,
              exitCode, cfgTtl>>

\* thread t calls get(k), set(k, v, ttl) with ttl > 0, delete(k) or clear() and
\* gets to the `with self._lock` statement
ThreadCalls(t, op, k, v, ttl) ==
  /\ threads[t].pc = "idle"
  /\ threads' = [threads EXCEPT ![t] =
        [NoThread EXCEPT !.pc = "wait", !.op = op, !.key = k,
                         !.value = IF op = "set" THEN v ELSE None,
                         !.ttl = IF op = "set" THEN ttl ELSE 0]]
  /\ UNCHANGED <<now, store, lock>>
  /\ ThreadFrame

\* lines 77, 108, 124, 130: the lock is taken; snap is the store found
ThreadAcquires(t) ==
  /\ threads[t].pc = "wait"
  /\ CanAcquire(t)
  /\ lock' = t
  /\ threads' = [threads EXCEPT ![t] =
        [@ EXCEPT !.snap = store,
                  !.pc = CASE threads[t].op \in {"get", "set"} -> "clean"
                           [] threads[t].op = "delete" -> "pop"
                           [] OTHER -> "wipe"]]
  /\ UNCHANGED <<now, store>>
  /\ ThreadFrame

\* lines 78, 109: _clean_expired()
ThreadCleans(t) ==
  /\ threads[t].pc = "clean"
  /\ store' = CleanExpired(store, now)
  /\ threads' = [threads EXCEPT ![t] =
        [@ EXCEPT !.at = now,
                  !.pc = IF threads[t].op = "get" THEN "lookup" ELSE "capacity"]]
  /\ UNCHANGED <<now, lock>>
  /\ ThreadFrame

\* line 110: _ensure_capacity()
ThreadEnsures(t) ==
  /\ threads[t].pc = "capacity"
  /\ store' = EnsureCapacity(store)
  /\ threads' = [threads EXCEPT ![t] = [@ EXCEPT !.pc = "put"]]
  /\ UNCHANGED <<now, lock>>
  /\ ThreadFrame

\* lines 112-114: the entry is written
ThreadPuts(t) ==
  /\ threads[t].pc = "put"
  /\ store' = Put(store, threads[t].key, threads[t].value, now + threads[t].ttl)
  /\ threads' = [threads EXCEPT ![t] = [@ EXCEPT !.pc = "release"]]
  /\ UNCHANGED <<now, lock>>
  /\ ThreadFrame

\* the store and the value of lines 80-91 for key k, read at time t2
LookupStore(s, k, t2) ==
  IF k \in KeysOf(s) /\ Expired(s[IndexOf(s, k)], t2) THEN Without(s, {k}) ELSE s

LookupValue(s, k, t2) ==
  IF k \in KeysOf(s) /\ ~Expired(s[IndexOf(s, k)], t2)
    THEN s[IndexOf(s, k)].value
    ELSE None

\* lines 80-91
ThreadLooksUp(t) ==
  /\ threads[t].pc = "lookup"
  /\ store' = LookupStore(store, threads[t].key, now)
  /\ threads' = [threads EXCEPT ![t] =
        [@ EXCEPT !.ret = LookupValue(store, threads[t].key, now), !.pc = "release"]]
  /\ UNCHANGED <<now, lock>>
  /\ ThreadFrame

\* line 125
ThreadPops(t) ==
  /\ threads[t].pc = "pop"
  /\ store' = Without(store, {threads[t].key})
  /\ threads' = [threads EXCEPT ![t] = [@ EXCEPT !.pc = "release"]]
  /\ UNCHANGED <<now, lock>>
  /\ ThreadFrame

\* line 131
ThreadWipes(t) ==
  /\ threads[t].pc = "wipe"
  /\ store' = <<>>
  /\ threads' = [threads EXCEPT ![t] = [@ EXCEPT !.pc = "release"]]
  /\ UNCHANGED <<now, lock>>
  /\ ThreadFrame

\* the end of the `with` block: the lock is released and the call returns
ThreadReleases(t) ==
  /\ threads[t].pc = "release"
  /\ lock' = IF lock = t THEN None ELSE lock
  /\ threads' = [threads EXCEPT ![t] = NoThread]
  /\ UNCHANGED <<now, store>>
  /\ ThreadFrame

\* time passes between two steps of the threads
ThreadTick ==
  /\ now < MaxTime
  /\ now' = now + 1
  /\ UNCHANGED <<store, threads, lock>>
  /\ ThreadFrame

(***************************************************************************)
(* Cache.set and its ttl argument (cache.py 39-44, 93-115; config.py 62-71) *)
(***************************************************************************)
MaxDefaultTTL == 2

\* config.py 67-68: CacheConfig accepts every ttl that is not negative
PermittedTTLs == 0..MaxDefaultTTL

\* ttl arguments that are not positive
BadTTLs == {0, -1}

ArgKeys == {<<"k1">>, <<"k2">>}

\* line 105 rejecting only a negative ttl
RejectsNegativeTTL(ttl) == ttl < 0

\* line 105: `ttl is not None and ttl <= 0`, for a ttl that is given
RejectsTTL(ttl) == ttl <= 0

\* Cache.set(k, v, ttl) with a ttl argument, lines 105-115: ValueError is
\* raised before the lock is taken and before the clock is read
SetArg(k, v, ttl) ==
  IF RejectsTTL(ttl)
    THEN /\ cLast' = [op |-> "set_raised", key |-> k, class |-> "ValueError"]
         /\ cSet' = NoSet
         /\ UNCHANGED <<now, store, order, rlVars, srvVars, clientVars, opVars>>
    ELSE Set(k, v, ttl)

\* Cache.set(k, v) without a ttl argument, lines 108-115: line 112 takes
\* self._ttl, which __init__ read from config.cache.ttl (line 43)
SetDefault(k, v) ==
  \E d \in {0, 1} :
    /\ now + d <= MaxTime
    /\ now' = now + d
    /\ SetStep(k, v, cfgTtl, d)
    /\ UNCHANGED <<rlVars, srvVars, clientVars, opVars>>

(***************************************************************************)
(* Request lines and response lines (server.py 276-319, 391-412, 436-438)  *)
(***************************************************************************)
Absent == "absent"          \* a member the JSON object does not have
Unhashable == "[...]"       \* a JSON array or object where a string is expected

UpperCase == {"A", "B", "C", "D", "E", "F", "G", "H", "I", "J", "K", "L", "M",
              "N", "O", "P", "Q", "R", "S", "T", "U", "V", "W", "X", "Y", "Z"}
Digit == {"0", "1", "2", "3", "4", "5", "6", "7", "8", "9"}

\* server.py 123: re.match(r"^[A-Z]{3}\d{2}$", zone) on a zone given as its
\* characters; `$` matches at the end and before a newline that ends the string
MatchesZone(z) ==
  /\ Len(z) \in {5, 6}
  /\ \A i \in 1..3 : z[i] \in UpperCase
  /\ \A i \in 4..5 : z[i] \in Digit
  /\ Len(z) = 6 => z[6] = "\n"

ZoneOK == <<"S", "G", "R", "0", "1">>
ZoneBad == <<"s", "g", "r", "1">>
NoZone == <<>>              \* "zone" missing or empty

KnownTools == {"get_prayer_times", "list_zones", "get_current_prayer"}

\* a request object: {"id": id, "method": method, "params": {"name": name,
\* "arguments": {"zone": zone}, "client_id": client_id}}
Req(id, method, name, zone) ==
  [kind |-> "object", id |-> id, method |-> method, params |-> "object",
   name |-> name, args |-> "object", zone |-> zone, client_id |-> Absent]

NoLine == [Req(Absent, Absent, Absent, NoZone) EXCEPT !.kind = "none"]

\* the non-empty lines the model feeds to the loop
Lines ==
  { [Req(Absent, Absent, Absent, NoZone) EXCEPT !.kind = "badjson"],
    [Req(Absent, Absent, Absent, NoZone) EXCEPT !.kind = "nonobject"],
    [Req("7", "listTools", Absent, NoZone) EXCEPT !.params = "nonobject"],
    [Req("7", "initialize", Absent, NoZone) EXCEPT !.params = "absent"],
    [Req(Absent, "listTools", Absent, NoZone) EXCEPT !.params = "absent"],
    Req("7", "bogus", Absent, NoZone),
    Req("7", "callTool", "no_such_tool", NoZone),
    Req(Absent, "callTool", Absent, NoZone),
    Req("7", "callTool", Unhashable, NoZone),
    Req("7", "callTool", "get_prayer_times", ZoneOK),
    Req("7", "callTool", "get_prayer_times", ZoneBad),
    Req("7", "callTool", "get_prayer_times", NoZone),
    [Req("7", "callTool", "get_current_prayer", ZoneOK) EXCEPT !.args = "nonobject"],
    [Req("7", "callTool", "get_current_prayer", ZoneOK) EXCEPT !.client_id = "c1"],
    [Req("7", "listTools", Absent, NoZone) EXCEPT !.client_id = Unhashable],
    Req("7", "callTool", "list_zones", NoZone) }

\* line 279 and json.dumps: a missing id is echoed as null
EchoId(line) == IF line.id = Absent THEN "null" ELSE line.id

\* line 400: request.get("params", {}).get("client_id", "default")
ClientIdOf(line) == IF line.client_id = Absent THEN "default" ELSE line.client_id

Response(line, envelope, form, code, message, ref, payload, dispatched) ==
  [jsonrpc |-> envelope, hasId |-> envelope,
   id |-> IF envelope THEN EchoId(line) ELSE Absent,
   form |-> form, code |-> code, message |-> message, ref |-> ref,
   payload |-> payload, line |-> line, dispatched |-> dispatched]

NoOut == Response(NoLine, FALSE, "none", 0, "", "", "", FALSE)

\* lines 282-292, 299: {"jsonrpc": "2.0", "id": request_id, "result": ...}
RpcResult(line, payload) ==
  Response(line, TRUE, "result", 0, "", "", payload, TRUE)

\* lines 310-319: {"jsonrpc": "2.0", "id": request_id, "error": {"code", "message"}}
RpcError(line, message, ref) ==
  Response(line, TRUE, "error_object", -32601, message, ref, "", TRUE)

\* lines 396, 403, 438: print(json.dumps({"error": "<message>"}))
BareError(line, message, dispatched) ==
  Response(line, FALSE, "error_string", 0, message, "", "", dispatched)

\* line 396 with a second line printed for the same failure
JsonErrorLinesTwice(line) ==
  <<BareError(line, "Invalid JSON request", FALSE),
    BareError(line, "Invalid JSON request", FALSE)>>

\* lines 394-397: what the loop prints for a line json.loads rejects
JsonErrorLines(line) == <<BareError(line, "Invalid JSON request", FALSE)>>

\* lines 401-404: what the loop prints for a request over the limit
RateLimitLines(line) == <<BareError(line, "Rate limit exceeded", FALSE)>>

\* lines 436-438: what `except Exception` prints
ServerErrorLines(line, dispatched) ==
  <<BareError(line, "Server error", dispatched)>>

\* lines 310-314 replaced by self.tools[tool_name] without the membership test
UnknownToolRaises(line) == [raised |-> TRUE, resp |-> NoOut]

\* lines 310-314: the answer to a callTool whose name is not in self.tools
UnknownTool(line) ==
  [raised |-> FALSE,
   resp |-> RpcError(line, "Unknown tool: ",
                     IF line.name = Absent THEN "None" ELSE line.name)]

\* lines 315-319: the answer to any other method
UnknownMethod(line) ==
  [raised |-> FALSE,
   resp |-> RpcError(line, "Unknown method: ",
                     IF line.method = Absent THEN "None" ELSE line.method)]

Returned(line, payload) == [raised |-> FALSE, resp |-> RpcResult(line, payload)]

NoRes == [raised |-> FALSE, resp |-> NoOut]

\* lines 393-404: what the loop does with a non-empty line before dispatching;
\* request.get, params.get and `client_id not in self._requests` raise on a
\* value of the wrong type, which `except Exception` (line 436) catches
LineOutcome(line) ==
  IF line.kind = "badjson" THEN "json_error"
  ELSE IF \/ line.kind = "nonobject"
          \/ line.params = "nonobject"
          \/ line.client_id = Unhashable
       THEN "server_error"
  ELSE IF ~IsAllowed(requests, ClientIdOf(line), now) THEN "rate_limited"
  ELSE "dispatch"

\* print(..., flush=True) of each line of `lines`
Emit(lines) ==
  /\ nout' = nout + Len(lines)
  /\ lastOut' = lines[Len(lines)]

(***************************************************************************)
(* The cached operations (server.py 95-111, cache.py 146-179)              *)
(***************************************************************************)
PrayerTimesTTL == 3600
ZonesTTL == 86400
CurrentPrayerTTL == 60

\* cache.py 162: "<module>.<function>_<cache_key(self, zone)>"; str(self) is the
\* same in every key of one server and is left out
CacheKeyOf(line) ==
  IF line.name = "list_zones" THEN <<"get_zones">> ELSE <<line.name>> \o line.zone

\* server.py 95-107 with every operation cached for one hour
TTLOfOneHour(line) == PrayerTimesTTL

\* server.py 95, 101, 107: the ttl of @cached
TTLOf(line) ==
  CASE line.name = "get_prayer_times" -> PrayerTimesTTL
    [] line.name = "list_zones" -> ZonesTTL
    [] line.name = "get_current_prayer" -> CurrentPrayerTTL

\* lines 146, 218 and 119-124: the handler's own failures before the cached call
HandlerRejects(line) ==
  /\ line.name # "list_zones"
  /\ \/ line.args = "nonobject"
     \/ line.zone = NoZone
     \/ ~MatchesZone(line.zone)

MaxLines == 3
MaxStale == 1
max_idle_count == 5

(***************************************************************************)
(* WaktuSolatServer.run (server.py 350-447) and its tasks                  *)
(***************************************************************************)
\* lines 356-363
RunStart ==
  /\ pc = "init"
  /\ hpc' = "ready"
  /\ active' = active \cup {"health"}
  /\ idle' = 0
  /\ pc' = "loop"
  /\ UNCHANGED <<opVars, clientVars, eof, now, rlVars, cacheVars, shutdown, nlines, stale, cur, tpc,
                 tres, httpClient, nout, lastOut, flight, sawBad>>

\* line 365 without the test: the loop goes on whatever the flag says
LoopEnterAlways ==
  /\ pc = "loop"
  /\ pc' = "read"
  /\ UNCHANGED <<opVars, clientVars, eof, now, rlVars, cacheVars, shutdown, idle, nlines, stale, cur,
                 tpc, tres, active, hpc, httpClient, nout, lastOut, flight, sawBad>>

\* line 365, flag clear: the next readline is awaited (lines 369-372)
LoopEnter ==
  /\ pc = "loop"
  /\ ~shutdown
  /\ pc' = "read"
  /\ UNCHANGED <<opVars, clientVars, eof, now, rlVars, cacheVars, shutdown, idle, nlines, stale, cur,
                 tpc, tres, active, hpc, httpClient, nout, lastOut, flight, sawBad>>

\* line 365, flag set: the loop ends and _cleanup starts (lines 442-445)
LoopExit ==
  /\ pc = "loop"
  /\ shutdown
  /\ pc' = "cleanup"
  /\ UNCHANGED <<opVars, clientVars, eof, now, rlVars, cacheVars, shutdown, idle, nlines, stale, cur,
                 tpc, tres, active, hpc, httpClient, nout, lastOut, flight, sawBad>>

\* lines 377-382 with the reset one empty line early
IdleAfterEmptyEarly(n) == IF n + 1 >= max_idle_count THEN 0 ELSE n + 1

\* lines 377-382: connection_idle_count after one more empty line
IdleAfterEmpty(n) == IF n + 1 > max_idle_count THEN 0 ELSE n + 1

\* lines 373-383: readline gave a blank line, or "" because stdin is at end of
\* input (sys.stdin.readline returns "" there; it never raises EOFError, so the
\* handler of lines 414-432 is never entered)
ReadEmpty ==
  /\ pc = "read"
  /\ stale = 0
  /\ idle' = IdleAfterEmpty(idle)
  /\ pc' = "loop"
  /\ UNCHANGED <<opVars, clientVars, eof, now, rlVars, cacheVars, shutdown, nlines, stale, cur, tpc,
                 tres, active, hpc, httpClient, nout, lastOut, flight, sawBad>>

\* the writer of stdin closes the pipe: every readline blocked on it, the
\* abandoned ones too, returns ""
InputEnds ==
  /\ ~eof
  /\ pc # "done"
  /\ eof' = TRUE
  /\ stale' = 0
  /\ UNCHANGED <<opVars, clientVars, now, rlVars, cacheVars, pc, shutdown, idle, nlines, cur,
                 tpc, tres, active, hpc, httpClient, nout, lastOut, flight, sawBad>>

\* lines 369-372, 433-435: wait_for gives up after 300 s; the executor thread
\* stays blocked in sys.stdin.readline
ReadTimeout ==
  /\ pc = "read"
  /\ ~eof
  /\ stale < MaxStale
  /\ stale' = stale + 1
  /\ pc' = "loop"
  /\ UNCHANGED <<opVars, clientVars, eof, now, rlVars, cacheVars, shutdown, idle, nlines, cur, tpc,
                 tres, active, hpc, httpClient, nout, lastOut, flight, sawBad>>

\* line 370: the next line of stdin goes to the oldest readline still blocked,
\* whose result nobody awaits
StaleRead ==
  /\ stale > 0
  /\ ~eof
  /\ pc # "done"
  /\ stale' = stale - 1
  /\ UNCHANGED <<opVars, clientVars, eof, now, rlVars, cacheVars, pc, shutdown, idle, nlines, cur, tpc,
                 tres, active, hpc, httpClient, nout, lastOut, flight, sawBad>>

\* lines 373-412: readline gave the non-empty line `line`
ReadLine(line) ==
  /\ pc = "read"
  /\ ~eof
  /\ stale = 0
  /\ nlines < MaxLines
  /\ nlines' = nlines + 1
  /\ idle' = 0
  /\ LET o == LineOutcome(line)
     IN  CASE o = "json_error" ->
                /\ Emit(JsonErrorLines(line))
                /\ pc' = "loop"
                /\ UNCHANGED <<rlVars, cur, tpc, active>>
           [] o = "server_error" ->
                /\ Emit(ServerErrorLines(line, FALSE))
                /\ pc' = "loop"
                /\ UNCHANGED <<rlVars, cur, tpc, active>>
           [] o = "rate_limited" ->
                /\ RLStep(ClientIdOf(line))
                /\ Emit(RateLimitLines(line))
                /\ pc' = "loop"
                /\ UNCHANGED <<cur, tpc, active>>
           [] o = "dispatch" ->
                /\ RLStep(ClientIdOf(line))
                /\ cur' = line
                /\ tpc' = "ready"
                /\ active' = active \cup {"request"}
                /\ pc' = "await"
                /\ UNCHANGED <<nout, lastOut>>
  /\ sawBad' = (sawBad \/ LineOutcome(line) \in {"json_error", "server_error"})
  /\ UNCHANGED <<opVars, clientVars, eof, now, cacheVars, shutdown, stale, tres, hpc, httpClient, flight>>

\* request_task ends: its done callback discards it from active_requests
Finish(res) ==
  /\ tres' = res
  /\ tpc' = "done"
  /\ active' = active \ {"request"}

\* handle_request (lines 276-319) up to its return or to the upstream call of
\* the cached operation (cache.py 161-170, client.py 136-149)
TaskStart ==
  /\ pc = "await"
  /\ tpc = "ready"
  /\ IF cur.method \in {"initialize", "listTools"}
       THEN /\ Finish(Returned(cur, cur.method))
            /\ UNCHANGED <<cacheVars, httpClient>>
     ELSE IF cur.method # "callTool"
       THEN /\ Finish(UnknownMethod(cur))
            /\ UNCHANGED <<cacheVars, httpClient>>
     ELSE IF cur.name = Unhashable
       THEN /\ Finish([raised |-> TRUE, resp |-> NoOut])
            /\ UNCHANGED <<cacheVars, httpClient>>
     ELSE IF cur.name \notin KnownTools
       THEN /\ Finish(UnknownTool(cur))
            /\ UNCHANGED <<cacheVars, httpClient>>
     ELSE IF HandlerRejects(cur)
       THEN /\ Finish(Returned(cur, "handler_error"))
            /\ UNCHANGED <<cacheVars, httpClient>>
     ELSE /\ GetStep(CacheKeyOf(cur), 0)
          /\ IF cLast'.ret # None
               THEN /\ Finish(Returned(cur, "content"))
                    /\ UNCHANGED httpClient
               ELSE /\ tpc' = "upstream"
                    /\ httpClient' = IF httpClient = "none" THEN "open" ELSE httpClient
                    /\ UNCHANGED <<tres, active>>
  /\ UNCHANGED <<opVars, clientVars, eof, now, rlVars, pc, shutdown, idle, nlines, stale, cur, hpc,
                 nout, lastOut, flight, sawBad>>

\* the upstream call ends (client.py 147-183 and the parsing after it), the
\* `async with client` block is left (client.py 83-93), the cached wrapper
\* stores a returned value (cache.py 172-175) and the handler returns
UpstreamDone(outcome) ==
  /\ pc = "await"
  /\ tpc = "upstream"
  /\ httpClient' = "none"
  /\ IF outcome = "ok"
       THEN /\ SetStep(CacheKeyOf(cur), "value", TTLOf(cur), 0)
            /\ Finish(Returned(cur, "content"))
       ELSE /\ Finish(Returned(cur, "handler_error"))
            /\ UNCHANGED cacheVars
  /\ UNCHANGED <<opVars, clientVars, eof, now, rlVars, pc, shutdown, idle, nlines, stale, cur, hpc,
                 nout, lastOut, flight, sawBad>>

\* lines 411-412 and 436-438: `await request_task` returns or raises
WriteResponse ==
  /\ pc = "await"
  /\ tpc = "done"
  /\ Emit(IF tres.raised THEN ServerErrorLines(cur, TRUE) ELSE <<tres.resp>>)
  /\ pc' = "loop"
  /\ tpc' = "none"
  /\ cur' = NoLine
  /\ tres' = NoRes
  /\ flight' = IF flight = "pending" THEN "answered" ELSE flight
  /\ sawBad' = (sawBad \/ tres.raised)
  /\ UNCHANGED <<opVars, clientVars, eof, now, rlVars, cacheVars, shutdown, idle, nlines, stale, active,
                 hpc, httpClient>>

\* a handler that cancels the request in flight and ends the loop at once
SignalCancels ==
  /\ pc # "done"
  /\ ~shutdown
  /\ shutdown' = TRUE
  /\ IF tpc \in {"ready", "upstream"}
       THEN /\ flight' = "pending"
            /\ tpc' = "none"
            /\ active' = active \ {"request"}
            /\ pc' = "cleanup"
       ELSE UNCHANGED <<flight, tpc, active, pc>>
  /\ UNCHANGED <<opVars, clientVars, eof, now, rlVars, cacheVars, idle, nlines, stale, cur, tres, hpc,
                 httpClient, nout, lastOut, sawBad>>

\* lines 92-93, 113-117: SIGTERM or SIGINT arrives
Signal ==
  /\ pc # "done"
  /\ ~shutdown
  /\ shutdown' = TRUE
  /\ flight' = IF tpc \in {"ready", "upstream"} THEN "pending" ELSE flight
  /\ UNCHANGED <<opVars, clientVars, eof, now, rlVars, cacheVars, pc, idle, nlines, stale, cur, tpc,
                 tres, active, hpc, httpClient, nout, lastOut, sawBad>>

\* line 324 as `while True`: the health loop never tests the flag
HealthStepForever ==
  /\ hpc \in {"ready", "sleep"}
  /\ pc \in {"read", "await", "cleanup"}
  /\ hpc' = "sleep"
  /\ UNCHANGED <<opVars, clientVars, eof, now, rlVars, cacheVars, pc, shutdown, idle, nlines,
                 stale, cur, tpc, tres, active, httpClient, nout, lastOut, flight,
                 sawBad>>

\* health_check (lines 321-348): one test of the flag, then sleep(30) or return;
\* it runs only while run() is suspended in an await
HealthStep ==
  /\ hpc \in {"ready", "sleep"}
  /\ pc \in {"read", "await", "cleanup"}
  /\ IF shutdown
       THEN /\ hpc' = "done"
            /\ active' = active \ {"health"}
       ELSE /\ hpc' = "sleep"
            /\ UNCHANGED active
  /\ UNCHANGED <<opVars, clientVars, eof, now, rlVars, cacheVars, pc, shutdown, idle, nlines, stale,
                 cur, tpc, tres, httpClient, nout, lastOut, flight, sawBad>>

\* _cleanup (lines 449-462): gather() of the active tasks has returned (or there
\* were none); client._client.aclose() when client._client is set
Cleanup ==
  /\ pc = "cleanup"
  /\ active = {}
  /\ httpClient' = IF httpClient = "none" THEN "none" ELSE "closed"
  /\ pc' = "done"
  /\ UNCHANGED <<opVars, clientVars, eof, now, rlVars, cacheVars, shutdown, idle, nlines, stale, cur,
                 tpc, tres, active, hpc, nout, lastOut, flight, sawBad>>

(***************************************************************************)
(* HTTPClient._request (client.py 116-183)                                 *)
(***************************************************************************)
retry_count == 3

\* client.py 36-57: APIError and the classes derived from it
APIErrorFamily == {"APIError", "ValidationError", "ResponseError", "ConnectionError"}

NoResult == [kind |-> "none", class |-> "", days |-> <<>>]
Raise(c) == [kind |-> "raise", class |-> c, days |-> <<>>]
Return(ds) == [kind |-> "return", class |-> "", days |-> ds]

\* what one HTTP attempt can end in, apart from a 2xx response with a body:
\* raise_for_status() raises HTTPStatusError, the transport raises a
\* RequestError, or anything else is raised
Failures == {"HTTPStatusError", "RequestError", "Exception"}

\* lines 168 and 175 comparing with the count instead of the last index
IsFinalOffByOne(a) == a = retry_count

\* lines 168 and 175: `attempt == self._retry_count - 1`
IsFinal(a) == a = retry_count - 1

\* lines 166-183: the class that leaves _request when `raised` is raised in
\* the try block of attempt a, or "retry" when the handler only logs a warning.
\* ResponseError (lines 157, 160) is raised inside the same try block, so it
\* is caught by `except Exception` and replaced by APIError.
Surfaced(raised, a) ==
  CASE raised = "HTTPStatusError" -> IF IsFinal(a) THEN "APIError" ELSE "retry"
    [] raised = "RequestError" -> IF IsFinal(a) THEN "ConnectionError" ELSE "retry"
    [] OTHER -> "APIError"

(***************************************************************************)
(* Upstream values and their conversions (client.py 226-316, models.py)    *)
(***************************************************************************)
TimeFields == {"fajr", "syuruk", "dhuhr", "asr", "maghrib", "isha"}

\* client.py 232
RequiredKeys == {"day", "fajr", "dhuhr", "asr", "maghrib", "isha", "syuruk"}

\* datetime.now() where it supplies a missing year or month (client.py 245-252)
NowYear == 2024
NowMonth == 4

\* the offset of the host's local time, which datetime.fromtimestamp applies
UtcOffsetSeconds == 28800

\* a JSON value where a time is expected: a string (its characters), an
\* integer (epoch seconds; inRange: fromtimestamp accepts it), a float or null
TimeStr(chars) == [k |-> "str", s |-> chars, ts |-> 0, inRange |-> TRUE]
TimeInt(n, ok) == [k |-> "int", s |-> <<>>, ts |-> n, inRange |-> ok]
TimeNull == [k |-> "null", s |-> <<>>, ts |-> 0, inRange |-> TRUE]
TimeFloat == [k |-> "float", s |-> <<>>, ts |-> 0, inRange |-> TRUE]

\* a date: the string "y-m-d" (form "ymd"), another string (form "text", the
\* empty string being form "empty"), an integer or null
DateYMD(y, m, d) == [k |-> "str", form |-> "ymd", y |-> y, m |-> m, d |-> d]
DateText == [k |-> "str", form |-> "text", y |-> 0, m |-> 0, d |-> 0]
DateEmpty == [k |-> "str", form |-> "empty", y |-> 0, m |-> 0, d |-> 0]
DateInt == [k |-> "int", form |-> "", y |-> 0, m |-> 0, d |-> 0]
DateNull == [k |-> "null", form |-> "", y |-> 0, m |-> 0, d |-> 0]

\* the item's "day" and the parent's "month": an integer, a string or null;
\* a month string either names month n ("APR", "April") or names none (n = 0)
IntVal(n) == [k |-> "int", n |-> n]
StrVal(n) == [k |-> "str", n |-> n]
NullVal == [k |-> "null", n |-> 0]
AbsentVal == [k |-> "absent", n |-> 0]

DigitChar(n) == <<"0", "1", "2", "3", "4", "5", "6", "7", "8", "9">>[n + 1]

\* client.py 285-286: datetime.fromtimestamp(ts).strftime("%H:%M")
HHMM(ts) ==
  LET local == ts + UtcOffsetSeconds
      h == (local \div 3600) % 24
      m == (local \div 60) % 60
  IN  <<DigitChar(h \div 10), DigitChar(h % 10), ":",
        DigitChar(m \div 10), DigitChar(m % 10)>>

\* a string of the transformed record, or None
Some(chars) == [isNone |-> FALSE, s |-> chars]
NoneStr == [isNone |-> TRUE, s |-> <<>>]

\* client.py 275-294: times[field]; None when the value is missing or null, a
\* timestamp fromtimestamp rejects, or neither an integer nor a string
ToTime(v) ==
  CASE v.k = "int" -> IF v.inRange THEN Some(HHMM(v.ts)) ELSE NoneStr
    [] v.k = "str" -> Some(v.s)
    [] OTHER -> NoneStr

\* models.py 14: TIME_PATTERN = ^([0-1]?[0-9]|2[0-3]):[0-5][0-9]$ matched
\* against the characters of s; `$` also matches before a final newline
MatchesTime(s) ==
  LET t == IF Len(s) > 0 /\ s[Len(s)] = "\n" THEN SubSeq(s, 1, Len(s) - 1) ELSE s
      h == Len(t) - 3
  IN  /\ Len(t) \in {4, 5}
      /\ IF h = 1 THEN t[1] \in Digit
         ELSE \/ t[1] \in {"0", "1"} /\ t[2] \in Digit
              \/ t[1] = "2" /\ t[2] \in {"0", "1", "2", "3"}
      /\ t[h + 1] = ":"
      /\ t[h + 2] \in {"0", "1", "2", "3", "4", "5"}
      /\ t[h + 3] \in Digit

IsLeap(y) == y % 4 = 0 /\ (y % 100 # 0 \/ y % 400 = 0)

DaysIn(y, m) ==
  IF m = 2 THEN (IF IsLeap(y) THEN 29 ELSE 28)
  ELSE IF m \in {4, 6, 9, 11} THEN 30 ELSE 31

\* datetime.strptime(date, "%Y-%m-%d") succeeds (client.py 299, models.py 48)
ParsesAsDate(date) ==
  /\ date.k = "str"
  /\ date.form = "ymd"
  /\ date.y \in 1..9999
  /\ date.m \in 1..12
  /\ date.d \in 1..DaysIn(date.y, date.m)

\* strftime("%A") of a parsed date (client.py 299): 0 is Sunday
Weekday(date) ==
  LET a == (14 - date.m) \div 12
      y == date.y - a
      m == date.m + 12 * a - 2
  IN  (date.d + y + y \div 4 - y \div 100 + y \div 400 + (31 * m) \div 12) % 7

(***************************************************************************)
(* HTTPClient.get_prayer_times (client.py 185-323)                         *)
(***************************************************************************)
\* an element of the prayers array: a JSON object with the members `keys`, or
\* a number, or a string (kind); `times`, `imsak`, `date`, `day` are the values
\* of the members that are present
Item(kind, keys, date, day, times, imsak) ==
  [kind |-> kind, keys |-> keys, date |-> date, day |-> day, times |-> times,
   imsak |-> imsak]

\* the body of a 2xx response: text that is not JSON, null, a string, an
\* object with the members `members` (its "prayers" an array or not), or an array
Body(kind, members, prayers, year, month, items) ==
  [kind |-> kind, members |-> members, prayers |-> prayers, year |-> year,
   month |-> month, items |-> items]

NoData == Body("none", {}, "", AbsentVal, AbsentVal, <<>>)

\* client.py 159: `not data`
Falsy(b) ==
  \/ b.kind = "null"
  \/ b.kind = "array" /\ b.items = <<>>
  \/ b.kind = "object" /\ b.members = {}

\* client.py 206-214: one of the two shapes get_prayer_times accepts
Recognized(b) ==
  \/ b.kind = "object" /\ "prayers" \in b.members /\ b.prayers = "list"
  \/ b.kind = "array"

\* client.py 244-248
YearOf(b) ==
  IF b.kind = "object" /\ "year" \in b.members THEN b.year ELSE IntVal(NowYear)

\* client.py 249-267: month_num; a string that names no month gives the
\* current month, a value that is not a string is used as it is
MonthNum(b) ==
  LET month == IF b.kind = "object" /\ "month" \in b.members
               THEN b.month ELSE StrVal(NowMonth)
  IN  IF month.k = "str"
      THEN IntVal(IF month.n \in 1..12 THEN month.n ELSE NowMonth)
      ELSE month

\* the exception `f"{v:02d}"` raises ("" when it raises none)
FormatRaises(v) ==
  CASE v.k = "int" -> ""
    [] v.k = "str" -> "ValueError"
    [] OTHER -> "TypeError"

\* client.py 238-269: date_str, or the exception line 269 raises
DateStrOf(item, b) ==
  IF "date" \in item.keys THEN [raised |-> "", date |-> item.date]
  ELSE IF FormatRaises(MonthNum(b)) # ""
    THEN [raised |-> FormatRaises(MonthNum(b)), date |-> DateNull]
  ELSE IF FormatRaises(item.day) # ""
    THEN [raised |-> FormatRaises(item.day), date |-> DateNull]
  ELSE [raised |-> "", date |-> DateYMD(YearOf(b).n, MonthNum(b).n, item.day.n)]

\* Python truth of date_str (client.py 300)
Truthy(date) == (date.k = "str" /\ date.form # "empty") \/ date.k = "int"

\* client.py 296-310: the transformed record
Transformed(item, date) ==
  [date |-> date,
   weekday |-> IF Truthy(date) THEN Weekday(date) ELSE 0,
   imsak |-> IF "imsak" \in item.keys /\ item.imsak.k = "str"
             THEN Some(item.imsak.s) ELSE NoneStr,
   times |-> [f \in TimeFields |-> ToTime(item.times[f])]]

\* models.py 33-61: PrayerTimes.model_validate(transformed) raises nothing.
\* date and the six times must be strings, imsak a string or None; date must
\* parse, every time that is not None must match TIME_PATTERN.
Validates(item, t) ==
  /\ t.date.k = "str"
  /\ ParsesAsDate(t.date)
  /\ \A f \in TimeFields : ~t.times[f].isNone /\ MatchesTime(t.times[f].s)
  /\ "imsak" \in item.keys => item.imsak.k \in {"str", "null"}
  /\ ~t.imsak.isNone => MatchesTime(t.imsak.s)

Skip == [out |-> "skip", class |-> "", rec |-> <<>>]
Raised(c) == [out |-> "raise", class |-> c, rec |-> <<>>]
Day(t) == [out |-> "day", class |-> "", rec |-> <<t>>]

\* client.py 228-316: one pass of the loop over prayers_data
ProcessItem(item, b) ==
  IF item.kind = "number" THEN Raised("TypeError")           \* `key in item`
  ELSE IF item.kind # "object" \/ ~(RequiredKeys \subseteq item.keys) THEN Skip
  ELSE LET ds == DateStrOf(item, b)
       IN  IF ds.raised # "" THEN Raised(ds.raised)           \* line 269
           ELSE IF ds.date.k = "int" THEN Raised("TypeError") \* line 299
           ELSE IF Truthy(ds.date) /\ ~ParsesAsDate(ds.date)
             THEN Raised("ValueError")                        \* line 299
           ELSE IF Validates(item, Transformed(item, ds.date))
             THEN Day(Transformed(item, ds.date))
           ELSE Skip                                          \* lines 314-316

RECURSIVE Collect(_, _)
\* client.py 227-316: prayer_times after the loop, or the exception that ended it
Collect(outs, acc) ==
  IF outs = <<>> THEN Return(acc)
  ELSE IF Head(outs).out = "raise" THEN Raise(Head(outs).class)
  ELSE Collect(Tail(outs), acc \o Head(outs).rec)

\* client.py 205-323: what get_prayer_times does with the data _request returned
ParsePrayerTimes(b) ==
  IF ~Recognized(b) THEN Raise("ResponseError")
  ELSE IF b.items = <<>> THEN Return(<<>>)
  ELSE Collect([i \in 1..Len(b.items) |-> ProcessItem(b.items[i], b)], <<>>)

MaxItems == 2

AllKeys == RequiredKeys \cup {"date"}
GoodTime == TimeStr(<<"1", "3", ":", "1", "6">>)
GoodTimes == [f \in TimeFields |-> GoodTime]
FajrIs(v) == [GoodTimes EXCEPT !["fajr"] = v]
GoodDate == DateYMD(2024, 4, 4)

\* the array elements the model feeds to get_prayer_times
ItemSet ==
  { Item("object", AllKeys, GoodDate, IntVal(4), GoodTimes, TimeNull),
    \* epoch seconds for fajr, the date left to be rebuilt from the day number
    Item("object", RequiredKeys, DateNull, IntVal(4),
         FajrIs(TimeInt(1712181300, TRUE)), TimeNull),
    \* "isha" missing
    Item("object", AllKeys \ {"isha"}, GoodDate, IntVal(4), GoodTimes, TimeNull),
    \* times that are not HH:MM: "25:00", "5:55", a timestamp out of range, 5.5
    Item("object", AllKeys, GoodDate, IntVal(4),
         FajrIs(TimeStr(<<"2", "5", ":", "0", "0">>)), TimeNull),
    Item("object", AllKeys, GoodDate, IntVal(4),
         FajrIs(TimeStr(<<"5", ":", "5", "5">>)), TimeNull),
    Item("object", AllKeys, GoodDate, IntVal(4), FajrIs(TimeInt(0, FALSE)), TimeNull),
    Item("object", AllKeys, GoodDate, IntVal(4), FajrIs(TimeFloat), TimeNull),
    \* dates: "04/04/2024", null, "", 20240404, day 31 with no date, day "4"
    \* with no date
    Item("object", AllKeys, DateText, IntVal(4), GoodTimes, TimeNull),
    Item("object", AllKeys, DateNull, IntVal(4), GoodTimes, TimeNull),
    Item("object", AllKeys, DateEmpty, IntVal(4), GoodTimes, TimeNull),
    Item("object", AllKeys, DateInt, IntVal(4), GoodTimes, TimeNull),
    Item("object", RequiredKeys, DateNull, IntVal(31), GoodTimes, TimeNull),
    Item("object", RequiredKeys, DateNull, StrVal(4), GoodTimes, TimeNull),
    \* an element that is a number
    Item("number", {}, DateNull, NullVal, GoodTimes, TimeNull) }

\* the elements that follow the first one of an array: one that passes, one
\* without "isha", one whose date is "04/04/2024"
TailItems ==
  { Item("object", AllKeys, GoodDate, IntVal(4), GoodTimes, TimeNull),
    Item("object", AllKeys \ {"isha"}, GoodDate, IntVal(4), GoodTimes, TimeNull),
    Item("object", AllKeys, DateText, IntVal(4), GoodTimes, TimeNull) }

\* the arrays of at most MaxItems elements the model feeds to get_prayer_times
ItemSeqs ==
  {<<>>} \cup
  { <<a>> \o t : a \in ItemSet,
                 t \in UNION {[1..n -> TailItems] : n \in 0..(MaxItems - 1)} }

\* the bodies of 2xx responses the model feeds to _request
Bodies ==
  { Body("notjson", {}, "", AbsentVal, AbsentVal, <<>>),
    Body("null", {}, "", AbsentVal, AbsentVal, <<>>),
    Body("string", {}, "", AbsentVal, AbsentVal, <<>>),
    Body("object", {}, "", AbsentVal, AbsentVal, <<>>),
    Body("object", {"zone"}, "", AbsentVal, AbsentVal, <<>>),
    Body("object", {"zone", "prayers"}, "other", AbsentVal, AbsentVal, <<>>) }
  \cup { Body("array", {}, "", AbsentVal, AbsentVal, items) : items \in ItemSeqs }
  \cup { Body("object", {"zone", "prayers"}, "list", AbsentVal, AbsentVal, items) :
           items \in ItemSeqs }
  \cup { Body("object", {"zone", "prayers", "year", "month"}, "list",
               IntVal(2024), StrVal(5), items) : items \in ItemSeqs }

Zones == {ZoneOK, ZoneBad, ZoneOK \o <<"\n">>}

\* client.py 185-203: get_prayer_times(z) up to its call of _request
GetPrayerTimes(z) ==
  /\ cpc = "idle"
  /\ czone' = z
  /\ IF MatchesZone(z)
       THEN /\ cpc' = "request"
            /\ attempt' = 0
            /\ UNCHANGED result
       ELSE /\ cpc' = "done"
            /\ result' = Raise("ValidationError")
            /\ UNCHANGED attempt
  /\ UNCHANGED <<tries, lastBody, data, now, rlVars, cacheVars, srvVars, opVars>>

\* client.py 147-183: one pass of the retry loop in which `f` is raised by
\* request() or raise_for_status()
AttemptFails(f) ==
  /\ cpc = "request"
  /\ tries' = Append(tries, f)
  /\ IF Surfaced(f, attempt) # "retry"
       THEN /\ result' = Raise(Surfaced(f, attempt))
            /\ cpc' = "done"
            /\ UNCHANGED <<attempt, data>>
     ELSE IF attempt + 1 < retry_count
       THEN /\ attempt' = attempt + 1
            /\ UNCHANGED <<cpc, data, result>>
     ELSE \* range() is exhausted: the function ends without a return statement
          /\ data' = Body("null", {}, "", AbsentVal, AbsentVal, <<>>)
          /\ cpc' = "parse"
          /\ UNCHANGED <<attempt, result>>
  /\ UNCHANGED <<czone, lastBody, now, rlVars, cacheVars, srvVars, opVars>>

\* client.py 147-164: one pass of the retry loop in which the server answers
\* 2xx with the body b
AttemptAnswers(b) ==
  /\ cpc = "request"
  /\ lastBody' = b
  /\ tries' = Append(tries, IF b.kind = "notjson" THEN "badjson"
                            ELSE IF Falsy(b) THEN "empty" ELSE "ok")
  /\ IF b.kind = "notjson" \/ Falsy(b)
       THEN /\ result' = Raise(Surfaced("ResponseError", attempt))
            /\ cpc' = "done"
            /\ UNCHANGED data
       ELSE /\ data' = b
            /\ cpc' = "parse"
            /\ UNCHANGED result
  /\ UNCHANGED <<czone, attempt, now, rlVars, cacheVars, srvVars, opVars>>

\* client.py 205-323: the rest of get_prayer_times
Parse ==
  /\ cpc = "parse"
  /\ result' = ParsePrayerTimes(data)
  /\ cpc' = "done"
  /\ UNCHANGED <<czone, attempt, tries, lastBody, data, now, rlVars, cacheVars,
                 srvVars, opVars>>

(***************************************************************************)
(* HTTPClient.get_zones (client.py 325-386, models.py 121-150)             *)
(***************************************************************************)
\* a JSON value where a string is expected: a string (its characters), a
\* number, null, or no member at all
JStr(chars) == [k |-> "str", s |-> chars, n |-> 0]
JInt(n) == [k |-> "int", s |-> <<>>, n |-> n]
JNull == [k |-> "null", s |-> <<>>, n |-> 0]
JAbsent == [k |-> "absent", s |-> <<>>, n |-> 0]

Whitespace == {" ", "\t", "\n"}

RECURSIVE LStrip(_)
LStrip(s) == IF s # <<>> /\ Head(s) \in Whitespace THEN LStrip(Tail(s)) ELSE s

RECURSIVE RStrip(_)
RStrip(s) ==
  IF s # <<>> /\ s[Len(s)] \in Whitespace THEN RStrip(SubSeq(s, 1, Len(s) - 1)) ELSE s

\* str.strip()
Strip(s) == RStrip(LStrip(s))

\* Python truth of a JSON value (client.py 353)
JTruthy(v) == (v.k = "str" /\ v.s # <<>>) \/ (v.k = "int" /\ v.n # 0)

\* an element of the zones array: a JSON object with the members daerah,
\* jakimCode and negeri (JAbsent where it has none), or a number, a string, null
ZoneItem(kind, daerah, jakimCode, negeri) ==
  [kind |-> kind, daerah |-> daerah, jakimCode |-> jakimCode, negeri |-> negeri]

\* a validated Zone
ZoneRec(name, code, negeri) == [name |-> name, code |-> code, negeri |-> negeri]

ZSkip == [out |-> "skip", class |-> "", rec |-> <<>>]
ZRaised(c) == [out |-> "raise", class |-> c, rec |-> <<>>]
ZKept(z) == [out |-> "day", class |-> "", rec |-> <<z>>]

\* models.py 131-150: Zone.model_validate of three stripped, non-empty strings
\* raises nothing; the code is matched after validate_fields stripped it again
ZoneValidates(t) == MatchesZone(Strip(t.code)) /\ Len(Strip(t.code)) = 5

\* client.py 346-380: one pass of the loop over data
ProcessZone(item) ==
  IF item.kind \in {"number", "null"} THEN ZRaised("TypeError")      \* `k in item`
  ELSE IF item.kind # "object" THEN ZSkip                  \* `k in "text"` is false
  ELSE IF \E v \in {item.daerah, item.jakimCode, item.negeri} : v.k = "absent"
    THEN ZSkip                                             \* lines 346-350
  ELSE IF \E v \in {item.daerah, item.jakimCode, item.negeri} : ~JTruthy(v)
    THEN ZSkip                                             \* lines 353-355
  ELSE IF \E v \in {item.daerah, item.jakimCode, item.negeri} : v.k # "str"
    THEN ZRaised("AttributeError")                         \* lines 358-360: .strip()
  ELSE LET t == ZoneRec(Strip(item.daerah.s), Strip(item.jakimCode.s),
                        Strip(item.negeri.s))
       IN  IF t.name = <<>> \/ t.code = <<>> \/ t.negeri = <<>> THEN ZSkip
           ELSE IF ZoneValidates(t) THEN ZKept(t)
           ELSE ZSkip                                      \* lines 375-380

\* client.py 340-386: what get_zones does with the data _request returned
ParseZones(b) ==
  IF b.kind # "array" THEN Raise("ResponseError")
  ELSE LET r == Collect([i \in 1..Len(b.items) |-> ProcessZone(b.items[i])], <<>>)
       IN  IF r.kind = "return" /\ r.days = <<>> THEN Raise("ResponseError") ELSE r

Gombak == JStr(<<"G", "o", "m", "b", "a", "k">>)
Selangor == JStr(<<"S", "e", "l">>)
GoodZone == ZoneItem("object", Gombak, JStr(ZoneOK), Selangor)

\* the array elements the model feeds to get_zones
ZoneItemSet ==
  { GoodZone,
    \* a code and a name with spaces around them
    ZoneItem("object", JStr(<<" ">> \o Gombak.s), JStr(ZoneOK \o <<" ">>), Selangor),
    \* "jakimCode" missing, null, "", "  ", "sgr1", 5; "negeri" 0
    ZoneItem("object", Gombak, JAbsent, Selangor),
    ZoneItem("object", Gombak, JNull, Selangor),
    ZoneItem("object", Gombak, JStr(<<>>), Selangor),
    ZoneItem("object", Gombak, JStr(<<" ", " ">>), Selangor),
    ZoneItem("object", Gombak, JStr(ZoneBad), Selangor),
    ZoneItem("object", Gombak, JInt(5), Selangor),
    ZoneItem("object", Gombak, JStr(ZoneOK), JInt(0)),
    \* "daerah" blank, 5
    ZoneItem("object", JStr(<<" ">>), JStr(ZoneOK), Selangor),
    ZoneItem("object", JInt(5), JStr(ZoneOK), Selangor),
    \* elements that are no objects
    ZoneItem("number", JAbsent, JAbsent, JAbsent),
    ZoneItem("string", JAbsent, JAbsent, JAbsent) }

\* the elements that follow the first one of an array
ZoneTailItems ==
  { GoodZone,
    ZoneItem("object", Gombak, JAbsent, Selangor),
    ZoneItem("object", Gombak, JInt(5), Selangor) }

ZoneItemSeqs ==
  {<<>>} \cup
  { <<a>> \o t : a \in ZoneItemSet,
                 t \in UNION {[1..n -> ZoneTailItems] : n \in 0..(MaxItems - 1)} }

\* the bodies of 2xx responses the model feeds to get_zones
ZoneBodies ==
  { Body("notjson", {}, "", AbsentVal, AbsentVal, <<>>),
    Body("null", {}, "", AbsentVal, AbsentVal, <<>>),
    Body("string", {}, "", AbsentVal, AbsentVal, <<>>),
    Body("object", {}, "", AbsentVal, AbsentVal, <<>>),
    Body("object", {"zones"}, "", AbsentVal, AbsentVal, <<>>) }
  \cup { Body("array", {}, "", AbsentVal, AbsentVal, items) : items \in ZoneItemSeqs }

\* client.py 335-336: get_zones() up to its call of _request
GetZones ==
  /\ cpc = "idle"
  /\ cpc' = "request"
  /\ attempt' = 0
  /\ UNCHANGED <<czone, tries, lastBody, data, result, now, rlVars, cacheVars,
                 srvVars, opVars>>

\* client.py 338-386: the rest of get_zones
ZonesParse ==
  /\ cpc = "parse"
  /\ result' = ParseZones(data)
  /\ cpc' = "done"
  /\ UNCHANGED <<czone, attempt, tries, lastBody, data, now, rlVars, cacheVars,
                 srvVars, opVars>>

(***************************************************************************)
(* HTTPClient.get_current_prayer (client.py 388-505)                       *)
(***************************************************************************)
\* datetime.now().day where today's row is looked for (client.py 426, 437)
NowDay == 4

\* client.py 426: datetime.now().strftime("%Y-%m-%d")
Today == DateYMD(NowYear, NowMonth, NowDay)

\* client.py 479
PrayerOrder == <<"fajr", "syuruk", "dhuhr", "asr", "maghrib", "isha">>

NoPrayer == "None"

DigitVal(c) == CHOOSE n \in 0..9 : DigitChar(n) = c

\* the number a string of one or two digits denotes, -1 for any other string
TwoDigits(s) ==
  IF Len(s) \in {1, 2} /\ \A i \in DOMAIN s : s[i] \in Digit
  THEN IF Len(s) = 1 THEN DigitVal(s[1]) ELSE 10 * DigitVal(s[1]) + DigitVal(s[2])
  ELSE -1

\* client.py 487: datetime.strptime(s, "%H:%M").time() as the minute of the
\* day, -1 when strptime raises ValueError
ParseHM(s) ==
  LET colons == {i \in DOMAIN s : s[i] = ":"}
      p == CHOOSE i \in colons : TRUE
      h == TwoDigits(SubSeq(s, 1, p - 1))
      m == TwoDigits(SubSeq(s, p + 1, Len(s)))
  IN  IF Cardinality(colons) # 1 THEN -1
      ELSE IF h \in 0..23 /\ m \in 0..59 THEN 60 * h + m ELSE -1

\* client.py 488 with `<=`: a checkpoint reached this very minute is still ahead
LaterOrNow(t, p) == t <= p

\* client.py 488: `now < prayer_time`, both as minutes of the day; now has
\* seconds and prayer_time has none, so within the checkpoint's own minute
\* now is not before it
Later(t, p) == t < p

\* client.py 484-494: the pass for prayers[i] finds a checkpoint ahead of t
Ahead(times, i, t) ==
  /\ ~times[PrayerOrder[i]].isNone
  /\ ParseHM(times[PrayerOrder[i]].s) >= 0
  /\ Later(t, ParseHM(times[PrayerOrder[i]].s))

\* client.py 478-505: the status computed from the times of today's row at t
StatusAt(times, t) ==
  LET found == {i \in DOMAIN PrayerOrder : Ahead(times, i, t)}
      i == CHOOSE j \in found : \A k \in found : j <= k
  IN  IF found = {}
      THEN [current_prayer |-> "isha", next_prayer |-> "fajr", prayer_times |-> times]
      ELSE [current_prayer |-> IF i > 1 THEN PrayerOrder[i - 1] ELSE NoPrayer,
            next_prayer |-> PrayerOrder[i], prayer_times |-> times]

\* Python truth of a row: an object with no member at all is false
RowTruthy(item) == item.kind # "object" \/ item.keys # {}

\* client.py 430-433: the exact-date pass over the rows, up to its break: the
\* index found (0 for none) or the exception `"date" in item` raises
DatePass(rows) ==
  LET hits == {i \in DOMAIN rows : rows[i].kind = "object" /\ "date" \in rows[i].keys
                                   /\ rows[i].date = Today}
      bad == {i \in DOMAIN rows : rows[i].kind = "number"}
      first(S) == CHOOSE j \in S : \A k \in S : j <= k
  IN  IF bad # {} /\ (hits = {} \/ first(bad) < first(hits))
      THEN [raised |-> "TypeError", idx |-> 0]
      ELSE [raised |-> "", idx |-> IF hits = {} THEN 0 ELSE first(hits)]

\* client.py 436-441: the day-number pass; item.get raises on a string
DayPass(rows) ==
  LET hits == {i \in DOMAIN rows : rows[i].kind = "object" /\ "day" \in rows[i].keys
                                   /\ rows[i].day = IntVal(NowDay)}
      bad == {i \in DOMAIN rows : rows[i].kind # "object"}
      first(S) == CHOOSE j \in S : \A k \in S : j <= k
  IN  IF bad # {} /\ (hits = {} \/ first(bad) < first(hits))
      THEN [raised |-> "AttributeError", idx |-> 0]
      ELSE [raised |-> "", idx |-> IF hits = {} THEN 0 ELSE first(hits)]

\* client.py 425-451: today_data as an index into the rows, 0 for None
TodayRow(rows) ==
  LET d == DatePass(rows)
      n == DayPass(rows)
  IN  IF d.raised # "" THEN d
      ELSE IF d.idx # 0 THEN d
      ELSE IF n.raised # "" THEN n
      ELSE IF n.idx # 0 /\ RowTruthy(rows[n.idx]) THEN n
      ELSE [raised |-> "", idx |-> IF rows # <<>> THEN 1 ELSE 0]

\* client.py 453-476: times of the row; a member that is missing counts as None
RowTimes(item) ==
  [f \in TimeFields |-> IF f \in item.keys THEN ToTime(item.times[f]) ELSE NoneStr]

\* client.py 409-505: what get_current_prayer does with the data at time t
CurrentPrayer(b, t) ==
  IF ~Recognized(b) THEN Raise("ResponseError")
  ELSE LET r == TodayRow(b.items)
       IN  IF r.raised # "" THEN Raise(r.raised)
           ELSE IF r.idx = 0 \/ ~RowTruthy(b.items[r.idx]) THEN Raise("ResponseError")
           ELSE Return(<<StatusAt(RowTimes(b.items[r.idx]), t)>>)

HM(h1, h2, m1, m2) == TimeStr(<<h1, h2, ":", m1, m2>>)

\* the checkpoints 05:58, 07:12, 13:19, 16:25, 19:21, 20:30
DayTimes ==
  [f \in TimeFields |->
     CASE f = "fajr" -> HM("0", "5", "5", "8")
       [] f = "syuruk" -> HM("0", "7", "1", "2")
       [] f = "dhuhr" -> HM("1", "3", "1", "9")
       [] f = "asr" -> HM("1", "6", "2", "5")
       [] f = "maghrib" -> HM("1", "9", "2", "1")
       [] f = "isha" -> HM("2", "0", "3", "0")]

\* the same day with fajr at 05:40, to tell one row from another
OtherTimes == [DayTimes EXCEPT !["fajr"] = HM("0", "5", "4", "0")]

Yesterday == DateYMD(NowYear, NowMonth, NowDay - 1)

\* the rows the model feeds to get_current_prayer
RowSet ==
  { \* today's row by date, by day number, and yesterday's by either
    Item("object", AllKeys, Today, IntVal(NowDay), DayTimes, TimeNull),
    Item("object", RequiredKeys, DateNull, IntVal(NowDay),
         [DayTimes EXCEPT !["fajr"] = TimeInt(1712181300, TRUE)], TimeNull),
    Item("object", AllKeys, Yesterday, IntVal(NowDay - 1), OtherTimes, TimeNull),
    \* a row dated today whose day number is yesterday's
    Item("object", AllKeys, Today, IntVal(NowDay - 1),
         [DayTimes EXCEPT !["fajr"] = HM("0", "5", "5", "0")], TimeNull),
    \* today's row with isha null, with isha missing, with fajr "25:00", with
    \* asr 5.5, with every time null
    Item("object", AllKeys, Today, IntVal(NowDay),
         [DayTimes EXCEPT !["isha"] = TimeNull], TimeNull),
    Item("object", AllKeys \ {"isha"}, Today, IntVal(NowDay), DayTimes, TimeNull),
    Item("object", AllKeys, Today, IntVal(NowDay),
         [DayTimes EXCEPT !["fajr"] = HM("2", "5", "0", "0")], TimeNull),
    Item("object", AllKeys, Today, IntVal(NowDay),
         [DayTimes EXCEPT !["asr"] = TimeFloat], TimeNull),
    Item("object", AllKeys, Today, IntVal(NowDay),
         [f \in TimeFields |-> TimeNull], TimeNull),
    \* {} and elements that are no objects
    Item("object", {}, DateNull, NullVal, DayTimes, TimeNull),
    Item("number", {}, DateNull, NullVal, DayTimes, TimeNull),
    Item("string", {}, DateNull, NullVal, DayTimes, TimeNull) }

\* the rows that follow the first one of an array
TailRows ==
  { Item("object", AllKeys, Today, IntVal(NowDay), DayTimes, TimeNull),
    Item("object", RequiredKeys, DateNull, IntVal(NowDay),
         [DayTimes EXCEPT !["fajr"] = TimeInt(1712181300, TRUE)], TimeNull),
    Item("object", AllKeys, Yesterday, IntVal(NowDay - 1), OtherTimes, TimeNull) }

RowSeqs ==
  {<<>>} \cup
  { <<a>> \o t : a \in RowSet,
                 t \in UNION {[1..n -> TailRows] : n \in 0..(MaxItems - 1)} }

\* the bodies of 2xx responses the model feeds to get_current_prayer
CurrentBodies ==
  { Body("null", {}, "", AbsentVal, AbsentVal, <<>>),
    Body("string", {}, "", AbsentVal, AbsentVal, <<>>),
    Body("object", {"zone"}, "", AbsentVal, AbsentVal, <<>>) }
  \cup { Body("array", {}, "", AbsentVal, AbsentVal, items) : items \in RowSeqs }
  \cup { Body("object", {"zone", "prayers"}, "list", AbsentVal, AbsentVal, items) :
           items \in RowSeqs }

\* the local times of day at which the model calls get_current_prayer: 05:00,
\* 05:58, 16:00, 16:25, 20:00, 20:30, 21:00
Clocks == {300, 358, 960, 985, 1200, 1230, 1260}

\* client.py 402-407: get_current_prayer(z) at time t up to its call of _request
GetCurrentPrayer(z, t) ==
  /\ cpc = "idle"
  /\ czone' = z
  /\ clock' = t
  /\ IF MatchesZone(z)
       THEN /\ cpc' = "request"
            /\ attempt' = 0
            /\ UNCHANGED result
       ELSE /\ cpc' = "done"
            /\ result' = Raise("ValidationError")
            /\ UNCHANGED attempt
  /\ UNCHANGED <<tries, lastBody, data, now, rlVars, cacheVars, srvVars, tool,
                 callers, nticks, ncalls, kept, scopes, mpc, env, restarts,
                 exitCode, thVars>>

\* client.py 409-505: the rest of get_current_prayer
CurrentParse ==
  /\ cpc = "parse"
  /\ result' = CurrentPrayer(data, clock)
  /\ cpc' = "done"
  /\ UNCHANGED <<czone, attempt, tries, lastBody, data, now, rlVars, cacheVars,
                 srvVars, opVars>>

(***************************************************************************)
(* The tool handlers (server.py 119-234)                                   *)
(***************************************************************************)
\* the `arguments` a handler is called with: a JSON object whose "zone" is
\* `zone` (JAbsent when it has none), or a value that is no object
Args(kind, zone) == [kind |-> kind, zone |-> zone]

\* what the cached operation behind a handler ends in besides returning a
\* value: an APIError of any class, or another exception escaping the client
OtherErrors == {"ValueError", "TypeError", "AttributeError", "RuntimeError"}
Outcomes == {"value"} \cup APIErrorFamily \cup OtherErrors

\* server.py 119-124: the exception _validate_zone(zone) raises, "" for none;
\* re.match raises TypeError on a value that is no string
ValidateZone(v) ==
  IF ~JTruthy(v) THEN "ValidationError"
  ELSE IF v.k # "str" THEN "TypeError"
  ELSE IF ~MatchesZone(v.s) THEN "ValidationError"
  ELSE ""

\* server.py 145-147, 184-185, 217-219: the exception raised inside the try
\* block of the handler, "" when the block reaches its return
RaisedInTry(name, args, outcome) ==
  IF name = "list_zones" THEN (IF outcome = "value" THEN "" ELSE outcome)
  ELSE IF args.kind # "object" THEN "AttributeError"           \* args.get
  ELSE IF ValidateZone(args.zone) # "" THEN ValidateZone(args.zone)
  ELSE IF outcome = "value" THEN "" ELSE outcome

Content == [kind |-> "content", type |-> "text", error |-> ""]
ErrorObject(msg) == [kind |-> "error", type |-> "", error |-> msg]
Propagates(exc) == [kind |-> "raise", type |-> "", error |-> exc]

\* the except clauses without the last one: only APIErrors are caught
CaughtAPIErrorsOnly(exc) ==
  IF exc \in APIErrorFamily THEN ErrorObject("str(e)") ELSE Propagates(exc)

\* server.py 159-167, 191-196, 226-234: the except clauses of a handler;
\* ValidationError is an APIError, every class of Outcomes is an Exception
Caught(exc) ==
  IF exc \in APIErrorFamily THEN ErrorObject("str(e)")
  ELSE ErrorObject("Internal server error: str(e)")

\* server.py 126-234: what the handler `name` returns
HandlerReturn(name, args, outcome) ==
  IF RaisedInTry(name, args, outcome) = "" THEN Content
  ELSE Caught(RaisedInTry(name, args, outcome))

NoToolCall == [name |-> "", args |-> Args("object", JAbsent), outcome |-> "value",
               ret |-> Content]

\* the arguments the model calls the handlers with: zone "SGR01", "sgr1",
\* missing, null, 5, and arguments that are an array
ArgsSet ==
  { Args("object", JStr(ZoneOK)), Args("object", JStr(ZoneBad)),
    Args("object", JAbsent), Args("object", JNull), Args("object", JInt(5)),
    Args("array", JAbsent) }

\* server.py 305-309: handle_request awaits self.tools[name](arguments)
CallTool(name, args, outcome) ==
  /\ tool' = [name |-> name, args |-> args, outcome |-> outcome,
              ret |-> HandlerReturn(name, args, outcome)]
  /\ UNCHANGED <<now, rlVars, cacheVars, srvVars, clientVars, clock, callers,
                 nticks, ncalls, kept, scopes, mpc, env, restarts, exitCode, thVars>>

(***************************************************************************)
(* The cached wrapper around the three operations (cache.py 146-179,       *)
(* server.py 95-111) with several callers and time passing                 *)
(***************************************************************************)
MaxTicks == 2

Callers == {"a", "b"}

ZoneKL == <<"K", "U", "L", "0", "1">>

\* the calls of the cached operations the model makes
CachedOps ==
  { Req("7", "callTool", "get_prayer_times", ZoneOK),
    Req("7", "callTool", "list_zones", NoZone),
    Req("7", "callTool", "get_current_prayer", ZoneOK),
    Req("7", "callTool", "get_current_prayer", ZoneKL) }

CachedKeys == {CacheKeyOf(op) : op \in CachedOps}

\* the value the n-th call of a wrapped operation returns
ValueOf(n) == <<"r1", "r2", "r3", "r4", "r5", "r6">>[n]

\* cache.py 165-167: `if result is not None: return result`
ServedFromCache(ret) == ret # None

NoEntry == [stored |-> FALSE, live |-> FALSE, at |-> 0, value |-> None]

NoCaller == [pc |-> "idle", op |-> Req(Absent, Absent, Absent, NoZone), n |-> 0,
             at |-> 0, seen |-> NoEntry, src |-> "", value |-> None]

\* the steps by which time advances between two steps of the callers: one
\* second, and one second less than each of the three TTLs
TickSet == {1, CurrentPrayerTTL - 1, PrayerTimesTTL - 1, ZonesTTL - 1}

\* cache.py 161-170: wrapper(*args) of caller u up to `return result` on a hit
\* or to `await func(*args, **kwargs)` on a miss
CachedCall(u, op) ==
  /\ callers[u].pc = "idle"
  /\ ncalls' = ncalls + 1
  /\ GetStep(CacheKeyOf(op), 0)
  /\ LET c == [NoCaller EXCEPT !.op = op, !.n = ncalls + 1, !.at = now,
                               !.seen = kept[CacheKeyOf(op)]]
     IN  callers' = [callers EXCEPT ![u] =
           IF ServedFromCache(cLast'.ret)
           THEN [c EXCEPT !.pc = "done", !.src = "cache", !.value = cLast'.ret]
           ELSE [c EXCEPT !.pc = "call"]]
  /\ UNCHANGED <<now, rlVars, srvVars, clientVars, clock, tool, nticks, kept,
                 scopes, mpc, env, restarts, exitCode, thVars>>

\* cache.py 170-175: the wrapped operation of caller u returns; the wrapper
\* stores the result under the key and returns it
CachedReturns(u) ==
  /\ callers[u].pc = "call"
  /\ LET c == callers[u]
         k == CacheKeyOf(c.op)
     IN  /\ SetStep(k, ValueOf(c.n), TTLOf(c.op), 0)
         /\ callers' = [callers EXCEPT ![u] =
                          [c EXCEPT !.pc = "done", !.src = "upstream",
                                    !.value = ValueOf(c.n)]]
         /\ kept' = [x \in CachedKeys |->
                       IF x = k THEN [stored |-> TRUE, live |-> TRUE, at |-> now,
                                      value |-> ValueOf(c.n)]
                       ELSE IF x \in cLast'.evicted THEN [kept[x] EXCEPT !.live = FALSE]
                       ELSE kept[x]]
  /\ UNCHANGED <<now, rlVars, srvVars, clientVars, clock, tool, nticks, ncalls,
                 scopes, mpc, env, restarts, exitCode, thVars>>

\* cache.py 170-173 storing what the call ended with, an error included
CachedRaisesStored(u) ==
  /\ callers[u].pc = "call"
  /\ SetStep(CacheKeyOf(callers[u].op), "error", TTLOf(callers[u].op), 0)
  /\ callers' = [callers EXCEPT ![u] = [@ EXCEPT !.pc = "done", !.src = "raise"]]
  /\ UNCHANGED <<now, rlVars, srvVars, clientVars, clock, tool, nticks,
                 ncalls, kept, scopes, mpc, env, restarts, exitCode, thVars>>

\* cache.py 170: the wrapped operation of caller u raises; nothing is stored
CachedRaises(u) ==
  /\ callers[u].pc = "call"
  /\ callers' = [callers EXCEPT ![u] = [@ EXCEPT !.pc = "done", !.src = "raise"]]
  /\ UNCHANGED <<now, rlVars, cacheVars, srvVars, clientVars, clock, tool, nticks,
                 ncalls, kept, scopes, mpc, env, restarts, exitCode, thVars>>

\* time.time() advances by d seconds
Elapse(d) ==
  /\ nticks < MaxTicks
  /\ nticks' = nticks + 1
  /\ now' = now + d
  /\ UNCHANGED <<rlVars, cacheVars, srvVars, clientVars, clock, tool, callers,
                 ncalls, kept, scopes, mpc, env, restarts, exitCode, thVars>>

(***************************************************************************)
(* Units of work sharing the global client, each inside its own            *)
(* `async with client` (client.py 79-183, main.py 100-122)                 *)
(***************************************************************************)
Units == {"a", "b"}

NoUnit == [pc |-> "idle", attempt |-> 0, result |-> NoResult, absent |-> FALSE]

\* client.py 83-93: __aexit__ closes the httpx client and sets _client to None
LeaveScope == httpClient' = "none"

\* what the pool actions leave alone
PoolFrame ==
  UNCHANGED <<now, rlVars, cacheVars, clientVars, clock, tool, callers, nticks,
              ncalls, kept, mpc, env, restarts, exitCode, thVars, pc, shutdown, idle,
              nlines, stale, cur, tpc, tres, active, hpc, nout, lastOut, flight,
              sawBad, eof>>

\* client.py 79-81, 136, 147-149: unit u enters its scope and _request gets to
\* the first `await self._client.request(...)`; _get_client makes a new httpx
\* client when _client is None.  Nothing is awaited on the way.
UnitSends(u) ==
  /\ scopes[u].pc = "idle"
  /\ httpClient' = "open"
  /\ scopes' = [scopes EXCEPT ![u] = [@ EXCEPT !.pc = "inflight", !.attempt = 0]]
  /\ PoolFrame

\* client.py 149-164, 83-93: the request of unit u is answered 2xx with data;
\* _request returns and the unit leaves its scope
UnitAnswered(u) ==
  /\ scopes[u].pc = "inflight"
  /\ scopes' = [scopes EXCEPT ![u] = [@ EXCEPT !.pc = "done", !.result = Return(<<>>)]]
  /\ LeaveScope
  /\ PoolFrame

\* client.py 166-183, 147-149: the request of unit u raises f.  On the last
\* attempt, or for an exception that is not retried, the error leaves _request
\* and the unit leaves its scope.  Otherwise the loop goes on at once to
\* `self._client.request(...)`, which raises AttributeError when _client is
\* None; `except Exception` turns that into APIError.
UnitFails(u, f) ==
  /\ scopes[u].pc = "inflight"
  /\ LET s == scopes[u]
     IN  IF Surfaced(f, s.attempt) # "retry"
           THEN /\ scopes' = [scopes EXCEPT ![u] =
                       [s EXCEPT !.pc = "done", !.result = Raise(Surfaced(f, s.attempt))]]
                /\ LeaveScope
         ELSE IF httpClient = "none"
           THEN /\ scopes' = [scopes EXCEPT ![u] =
                       [s EXCEPT !.pc = "done", !.attempt = s.attempt + 1,
                                 !.absent = TRUE,
                                 !.result = Raise(Surfaced("AttributeError",
                                                           s.attempt + 1))]]
                /\ LeaveScope
         ELSE /\ scopes' = [scopes EXCEPT ![u] = [s EXCEPT !.attempt = s.attempt + 1]]
              /\ UNCHANGED httpClient
  /\ PoolFrame

(***************************************************************************)
(* main() (server.py 465-539) and the configuration it loads (config.py)   *)
(***************************************************************************)
MaxRestarts == 2

\* What main() finds when it loads the configuration: sources that are absent
\* or well formed; a configuration file that cannot be opened; a numeric
\* setting that is not a number (WAKTU_SOLAT_CACHE_TTL=abc); a numeric setting
\* outside its range (WAKTU_SOLAT_CACHE_TTL=-5).
ConfigSources == {"valid", "unreadable", "malformed", "outOfRange"}

\* config.py 156-226: load_from_file lets the OSError of open() through;
\* load_from_env converts with int(), which raises ValueError, and assigns the
\* number without running __post_init__, so a number out of range is accepted
LoadConfig(e) ==
  CASE e = "unreadable" -> "EnvironmentError"
    [] e = "malformed" -> "ValueError"
    [] OTHER -> "ok"

\* server.py 504-531: where main() goes after the loading ended with o.
\* EnvironmentError reaches sys.exit(1); any other exception reaches
\* `except Exception`, which sleeps and keeps should_restart True.
AfterLoad(o) ==
  CASE o = "ok" -> "run"
    [] o = "EnvironmentError" -> "exited"
    [] OTHER -> "sleep"

\* what main()'s actions leave alone
MainFrame ==
  UNCHANGED <<now, rlVars, cacheVars, srvVars, clientVars, clock, tool,
              callers, nticks, ncalls, kept, scopes, env, thVars>>

\* server.py 478-511: one pass of the loop up to server.run()
MainLoads ==
  /\ mpc = "start"
  /\ mpc' = AfterLoad(LoadConfig(env))
  /\ exitCode' = IF mpc' = "exited" THEN 1 ELSE exitCode
  /\ UNCHANGED restarts
  /\ MainFrame

\* server.py 524-531: time.sleep(5) is over and the loop starts again
MainRestarts ==
  /\ mpc = "sleep"
  /\ restarts < MaxRestarts
  /\ mpc' = "start"
  /\ restarts' = restarts + 1
  /\ UNCHANGED exitCode
  /\ MainFrame

\* server.py 516-518, 527: Ctrl-C before the server installs its signal handlers
\* is caught and ends the loop, exit code 0; Ctrl-C during the sleep of an
\* except clause is caught by no clause and ends the process with status 130
MainInterrupted ==
  /\ mpc \in {"start", "sleep"}
  /\ mpc' = "exited"
  /\ exitCode' = IF mpc = "start" THEN 0 ELSE 130
  /\ UNCHANGED restarts
  /\ MainFrame

\* server.py 511-516, 533-534: server.run() has returned; sys.exit(0)
MainRunReturns ==
  /\ mpc = "run"
  /\ pc = "done"
  /\ mpc' = "exited"
  /\ exitCode' = 0
  /\ UNCHANGED restarts
  /\ MainFrame

(***************************************************************************)
(* Specifications                                                          *)
(***************************************************************************)
InitServer ==
  /\ now = 0
  /\ requests = <<>>
  /\ rlHist = [c \in ClientIds |-> <<>>]
  /\ rlLast = [client |-> None, at |-> 0, allowed |-> FALSE, before |-> 0]
  /\ store = <<>>
  /\ order = <<>>
  /\ cSet = NoSet
  /\ cLast = [op |-> "none"]
  /\ pc = "init"
  /\ shutdown = FALSE
  /\ idle = 0
  /\ nlines = 0
  /\ stale = 0
  /\ cur = NoLine
  /\ tpc = "none"
  /\ tres = NoRes
  /\ active = {}
  /\ hpc = "none"
  /\ httpClient = "open"
  /\ nout = 0
  /\ lastOut = NoOut
  /\ flight = "none"
  /\ sawBad = FALSE
  /\ eof = FALSE
  /\ cpc = "idle"
  /\ czone = NoZone
  /\ attempt = 0
  /\ tries = <<>>
  /\ lastBody = NoData
  /\ data = NoData
  /\ result = NoResult
  /\ clock = 0
  /\ tool = NoToolCall
  /\ callers = [u \in Callers |-> NoCaller]
  /\ nticks = 0
  /\ ncalls = 0
  /\ kept = [k \in CachedKeys |-> NoEntry]
  /\ scopes = [u \in Units |-> NoUnit]
  /\ restarts = 0
  /\ exitCode = -1
  /\ threads = [t \in Threads |-> NoThread]
  /\ lock = None

\* The server as Spec takes it up: main() has loaded a valid configuration and
\* built the server (server.py 474-509)
Init ==
  /\ InitServer
  /\ mpc = "run"
  /\ env = "valid"
  /\ cfgTtl = DefaultTTL

NextRL ==
  \/ \E c \in ClientIds : RLCall(c)
  \/ RLTick

SpecRL == Init /\ [][NextRL]_vars

NextCache ==
  \/ \E k \in Keys, v \in Values, ttl \in TTLs : Set(k, v, ttl)
  \/ \E k \in Keys : Get(k)
  \/ \E k \in Keys : Delete(k)
  \/ Clear
  \/ CacheTick

SpecCache == Init /\ [][NextCache]_vars

NextClient ==
  \/ \E z \in Zones : GetPrayerTimes(z)
  \/ \E f \in Failures : AttemptFails(f)
  \/ \E b \in Bodies : AttemptAnswers(b)
  \/ Parse

\* One call of HTTPClient.get_prayer_times against any behaviour of the server
SpecClient == Init /\ [][NextClient]_vars

NextZones ==
  \/ GetZones
  \/ \E f \in Failures : AttemptFails(f)
  \/ \E b \in ZoneBodies : AttemptAnswers(b)
  \/ ZonesParse

\* One call of HTTPClient.get_zones against any behaviour of the server
SpecZones == Init /\ [][NextZones]_vars

NextCurrent ==
  \/ \E z \in {ZoneOK, ZoneBad}, t \in Clocks : GetCurrentPrayer(z, t)
  \/ \E f \in {"HTTPStatusError", "RequestError"} : AttemptFails(f)
  \/ \E b \in CurrentBodies : AttemptAnswers(b)
  \/ CurrentParse

\* One call of HTTPClient.get_current_prayer at any of the times Clocks
SpecCurrent == Init /\ [][NextCurrent]_vars

NextTools ==
  \E name \in KnownTools, args \in ArgsSet, outcome \in Outcomes :
    CallTool(name, args, outcome)

\* Calls of the three tool handlers with any arguments and any outcome of the
\* cached operation
SpecTools == Init /\ [][NextTools]_vars

NextCached ==
  \/ \E u \in Callers, op \in CachedOps : CachedCall(u, op)
  \/ \E u \in Callers : CachedReturns(u)
  \/ \E u \in Callers : CachedRaises(u)
  \/ \E d \in TickSet : Elapse(d)

\* Two callers, each calling one of the cached operations once, at any times
SpecCached == Init /\ [][NextCached]_vars

NextPool ==
  \/ \E u \in Units : UnitSends(u)
  \/ \E u \in Units : UnitAnswered(u)
  \/ \E u \in Units, f \in Failures : UnitFails(u, f)

\* Two units of work, each making one request through the global client
SpecPool == Init /\ [][NextPool]_vars

NextThreads ==
  \/ \E t \in Threads, op \in ThreadOps, k \in ThreadKeys, ttl \in TTLs :
        ThreadCalls(t, op, k, ValueWrittenBy(t), ttl)
  \/ \E t \in Threads : ThreadAcquires(t)
  \/ \E t \in Threads : ThreadCleans(t)
  \/ \E t \in Threads : ThreadEnsures(t)
  \/ \E t \in Threads : ThreadPuts(t)
  \/ \E t \in Threads : ThreadLooksUp(t)
  \/ \E t \in Threads : ThreadPops(t)
  \/ \E t \in Threads : ThreadWipes(t)
  \/ \E t \in Threads : ThreadReleases(t)
  \/ ThreadTick

\* Two threads calling the operations of one Cache
SpecThreads == Init /\ [][NextThreads]_vars

\* A Cache built under any configuration CacheConfig accepts
InitArgs ==
  /\ InitServer
  /\ mpc = "run"
  /\ env = "valid"
  /\ cfgTtl \in PermittedTTLs

NextArgs ==
  \/ \E k \in ArgKeys, ttl \in TTLs \cup BadTTLs : SetArg(k, "v1", ttl)
  \/ \E k \in ArgKeys : SetDefault(k, "v2")
  \/ \E k \in ArgKeys : Get(k)
  \/ \E k \in ArgKeys : Delete(k)
  \/ Clear
  \/ CacheTick

\* Cache.set called with every kind of ttl, with and without the argument
SpecArgs == InitArgs /\ [][NextArgs]_vars

\* One run of the server, within one instant of time.time(): how the limiter
\* and the cache behave as time passes is checked under SpecRL and SpecCache.
Next ==
  \/ RunStart
  \/ LoopEnter
  \/ LoopExit
  \/ ReadEmpty
  \/ ReadTimeout
  \/ StaleRead
  \/ InputEnds
  \/ \E line \in Lines : ReadLine(line)
  \/ TaskStart
  \/ \E outcome \in {"ok", "api_error", "error"} : UpstreamDone(outcome)
  \/ WriteResponse
  \/ Signal
  \/ HealthStep
  \/ Cleanup

Spec == Init /\ [][Next]_vars

\* the lines fed to the server where its termination is checked: one that is
\* refused before dispatch, one answered from the handler, one that goes upstream
LiveLines ==
  { [Req(Absent, Absent, Absent, NoZone) EXCEPT !.kind = "badjson"],
    Req("7", "callTool", "no_such_tool", NoZone),
    Req("7", "callTool", "get_prayer_times", ZoneOK) }

NextLive ==
  \/ RunStart
  \/ LoopEnter
  \/ LoopExit
  \/ ReadEmpty
  \/ ReadTimeout
  \/ StaleRead
  \/ InputEnds
  \/ \E line \in LiveLines : ReadLine(line)
  \/ TaskStart
  \/ \E outcome \in {"ok", "api_error", "error"} : UpstreamDone(outcome)
  \/ WriteResponse
  \/ Signal
  \/ HealthStep
  \/ Cleanup

\* The event loop runs every task that is ready: sleep(30) of the health loop
\* ends, and _cleanup goes on once gather() has returned.  Nothing is assumed
\* of stdin or of signals.
SpecLive == Init /\ [][NextLive]_vars /\ WF_vars(HealthStep) /\ WF_vars(Cleanup)

\* main() from its first statement: the configuration sources hold anything
InitMain ==
  /\ InitServer
  /\ mpc = "start"
  /\ env \in ConfigSources
  /\ cfgTtl = DefaultTTL

\* server.py 511: the server's actions happen inside server.run()
NextMain ==
  \/ MainLoads
  \/ MainRestarts
  \/ MainInterrupted
  \/ MainRunReturns
  \/ mpc = "run" /\ RunStart
  \/ mpc = "run" /\ LoopEnter
  \/ mpc = "run" /\ LoopExit
  \/ mpc = "run" /\ ReadEmpty
  \/ mpc = "run" /\ ReadTimeout
  \/ mpc = "run" /\ StaleRead
  \/ mpc = "run" /\ InputEnds
  \/ mpc = "run" /\ \E line \in LiveLines : ReadLine(line)
  \/ mpc = "run" /\ TaskStart
  \/ mpc = "run" /\ \E outcome \in {"ok", "api_error", "error"} : UpstreamDone(outcome)
  \/ mpc = "run" /\ WriteResponse
  \/ mpc = "run" /\ Signal
  \/ mpc = "run" /\ HealthStep
  \/ mpc = "run" /\ Cleanup

SpecMain == InitMain /\ [][NextMain]_vars

\* The dispatcher of SpecLive with time passing between its steps, so that
\* the limiter's window moves while lines are read (server.py 391-404)
NextGate ==
  \/ RunStart
  \/ LoopEnter
  \/ LoopExit
  \/ ReadEmpty
  \/ ReadTimeout
  \/ StaleRead
  \/ InputEnds
  \/ \E line \in LiveLines : ReadLine(line)
  \/ TaskStart
  \/ \E outcome \in {"ok", "api_error", "error"} : UpstreamDone(outcome)
  \/ WriteResponse
  \/ Signal
  \/ HealthStep
  \/ Cleanup
  \/ RLTick

SpecGate == Init /\ [][NextGate]_vars

(***************************************************************************)
(* Claims about the rate limiter (checked under SpecRL)                    *)
(***************************************************************************)
\* C1: a call of is_allowed(c) is allowed exactly when fewer than
\* requests_per_minute earlier allowed calls of c lie less than window_size
\* before it, so no window ever holds more than requests_per_minute allowed
\* calls, the next one is rejected, and an allowed call stops counting (frees
\* one slot) as soon as it is window_size old.
C1_RateLimit ==
  /\ \A c \in ClientIds : CountInWindow(rlHist[c], now) <= requests_per_minute
  /\ rlLast.client # None =>
       (rlLast.allowed <=> rlLast.before < requests_per_minute)

\* C1 witness: with the limit used up, a call made exactly window_size after
\* the oldest allowed call is allowed again.
C1_Witness ==
  /\ rlLast.client # None
  /\ rlLast.allowed
  /\ rlLast.before = requests_per_minute - 1
  /\ Len(rlHist[rlLast.client]) = requests_per_minute + 1
  /\ rlLast.at - rlHist[rlLast.client][1] = window_size

(***************************************************************************)
(* Claims about the cache (checked under SpecCache)                        *)
(***************************************************************************)
\* C2: a get(k) that directly follows set(k, v, ttl) (only time passing in
\* between) returns v while less than ttl has elapsed since the set, and
\* absent once ttl or more has elapsed.
C2_RoundTrip ==
  (cLast.op = "get" /\ cLast.after.key = cLast.key) =>
     cLast.ret = IF cLast.at < cLast.after.at + cLast.after.ttl
                 THEN cLast.after.value
                 ELSE None

\* C2 witness: the get happens exactly ttl after the set and returns absent.
C2_Witness ==
  /\ cLast.op = "get"
  /\ cLast.after.key = cLast.key
  /\ cLast.at = cLast.after.at + cLast.after.ttl
  /\ cLast.ret = None

\* C3: the store never holds more than max_size entries.
C3_Capacity == Len(store) <= max_size

\* C3 witness: a set() of a new key found the store full, evicted, and left
\* the store at max_size entries.
C3_Witness ==
  /\ cLast.op = "set"
  /\ cLast.evicted # {}
  /\ Len(cLast.before) = max_size
  /\ cLast.key \notin KeysOf(SubSeq(store, 1, Len(store) - 1))
  /\ Len(store) = max_size

\* C4: the entries a set() evicts for capacity are the ones inserted
\* earliest: no entry is evicted while an entry inserted before it stays.
C4_EvictionOrder ==
  cLast.op = "set" =>
    \A i, j \in DOMAIN cLast.before :
      (i < j /\ cLast.before[j] \in cLast.evicted) =>
         cLast.before[i] \in cLast.evicted

(***************************************************************************)
(* Claims about the dispatcher (checked under Spec)                        *)
(***************************************************************************)
\* C5: every non-empty line the loop gets from readline, whatever it holds,
\* is answered by exactly one line on stdout (none is pending except the one
\* whose request unit the loop awaits), the loop is never left through an
\* exception, and only the shutdown flag, never a line, ends the loop.
C5_ErrorIsolation ==
  /\ pc \in {"init", "loop", "read", "await", "cleanup", "done"}
  /\ pc = "await" => nout = nlines - 1
  /\ pc # "await" => nout = nlines
  /\ pc \in {"cleanup", "done"} => shutdown

\* C5 witness: after a malformed line was answered with an error line, a
\* later tool call is served and the loop goes on reading.
C5_Witness ==
  /\ sawBad
  /\ lastOut.payload = "content"
  /\ nout = nlines
  /\ pc = "read"
  /\ ~shutdown

UnknownMethodLine(l) ==
  l.kind = "object" /\ l.method \notin {"initialize", "listTools", "callTool"}

UnknownToolLine(l) ==
  l.kind = "object" /\ l.method = "callTool" /\ l.name \notin KnownTools
    /\ l.name # Unhashable

C7_Envelope ==
  lastOut # NoOut =>
    /\ lastOut.jsonrpc
    /\ lastOut.hasId
    /\ lastOut.id = EchoId(lastOut.line)
    /\ lastOut.form \in {"result", "error_object"}

\* C8: while a request's handler is suspended on its upstream call, the
\* dispatcher can read (and dispatch) the next request line.
C8_ConcurrentDispatch ==
  (tpc = "upstream" /\ ~shutdown /\ stale = 0 /\ nlines < MaxLines) =>
     ENABLED (\E line \in Lines : ReadLine(line))

Starting == pc = "init" /\ ~shutdown
Running == pc \in {"loop", "read", "await"} /\ ~shutdown
Draining == pc # "done" /\ (shutdown \/ pc = "cleanup")
Stopped == pc = "done"

LifecycleRank ==
  CASE Starting -> 0
    [] Running -> 1
    [] Draining -> 2
    [] Stopped -> 3

\* C9: the server only moves forward through STARTING, RUNNING, DRAINING,
\* STOPPED; the shutdown flag, once set, stays set; with the flag set no new
\* readline is started; and _cleanup runs only with the flag set.
C9_Lifecycle ==
  [][ /\ LifecycleRank' >= LifecycleRank
      /\ shutdown => shutdown'
      /\ (shutdown /\ pc' = "read") => pc = "read"
      /\ pc' \in {"cleanup", "done"} => shutdown' ]_vars

\* C9 witness: a server that answered requests has stopped.
C9_Witness ==
  /\ pc = "done"
  /\ shutdown
  /\ nout > 0
  /\ hpc = "done"

\* C10: a request unit that is in flight when the signal arrives is not
\* cancelled: the loop keeps awaiting it, and _cleanup (and with it the
\* dispatcher's aclose() of the client) starts only after that unit has
\* finished and its response line has been written.
C10_InFlightSurvives ==
  /\ flight = "pending" =>
       /\ pc = "await"
       /\ tpc \in {"ready", "upstream", "done"}
       /\ tpc # "done" => "request" \in active
  /\ pc \in {"cleanup", "done"} =>
       /\ flight # "pending"
       /\ tpc = "none"
       /\ nout = nlines
  /\ httpClient = "closed" => pc = "done"

\* C10 witness: the signal came while a unit was suspended upstream, the
\* unit's response was written, and the server then cleaned up and stopped.
C10_Witness ==
  /\ flight = "answered"
  /\ lastOut.dispatched
  /\ pc = "done"

\* C11: once the shutdown flag is set, no further line is taken from stdin
\* to be parsed, rate-limited or dispatched.
C11_NoLineAfterSignal == [][shutdown => nlines' = nlines]_vars

\* C12: once the loop has ended, _cleanup runs to its end: the server stops,
\* and when it has stopped every tracked task (the health loop too) is done
\* and the client holds no open connection.
C12_DrainCompletes ==
  /\ [](pc = "done" => /\ active = {}
                       /\ hpc = "done"
                       /\ tpc = "none"
                       /\ httpClient \in {"closed", "none"})
  /\ (pc = "cleanup") ~> (pc = "done")

\* C12 witness: _cleanup found the health loop still running, waited for it,
\* closed the client's connection and the server stopped.
C12_Witness ==
  /\ pc = "done"
  /\ hpc = "done"
  /\ active = {}
  /\ httpClient = "closed"

\* C13: an iteration of the loop that read end of input from a stdin that is
\* not a terminal ends with the shutdown flag set (the server goes on to drain).
C13_EndOfInput == [][(eof /\ pc = "read" /\ pc' = "loop") => shutdown']_vars

\* C14: a read timeout or an empty line leaves the server running and never
\* sets the shutdown flag; an empty line adds one to the idle counter, or
\* resets it to 0 when it would exceed max_idle_count (the warning); a
\* non-empty line resets it to 0; a timeout leaves it alone; so the counter is
\* within 0..max_idle_count whenever the loop tests its condition.
C14_IdleTolerance ==
  /\ [](idle \in 0..max_idle_count)
  /\ [][ /\ nlines' > nlines => idle' = 0
         /\ (pc = "read" /\ pc' = "loop" /\ nlines' = nlines) =>
              /\ shutdown' = shutdown
              /\ stale' > stale => idle' = idle
              /\ stale' = stale =>
                   idle' = IF idle = max_idle_count THEN 0 ELSE idle + 1
         /\ (pc = "read" /\ pc' = "loop") => ~(Running /\ ~Running') ]_vars

\* C14 witness: after a request was answered, max_idle_count empty lines in a
\* row and a read timeout, the loop is reading again with the flag clear.
C14_Witness ==
  /\ idle = max_idle_count
  /\ stale > 0
  /\ nout > 0
  /\ pc = "read"
  /\ Running

\* C15: every line that arrives on stdin is given to the loop: a readline
\* abandoned by a timeout never takes a line (it returns only at end of input).
C15_NoLineLost == [][stale' < stale => eof']_vars

(***************************************************************************)
(* Claims about the upstream client (checked under SpecClient)             *)
(***************************************************************************)
\* C16: one call of _request makes between 1 and retry_count HTTP attempts; an
\* attempt is followed by another only if it ended in an HTTP-status or
\* transport failure and was not the last; _request returns only after a
\* successful attempt, with that attempt's data; and a call whose last
\* attempt ended in a status or transport failure made exactly retry_count
\* attempts and raised.
C16_RetryBudget ==
  LET n == Len(tries)
  IN  /\ n <= retry_count
      /\ (cpc \in {"parse", "done"} /\ result.class # "ValidationError") => n >= 1
      /\ \A i \in 1..(n - 1) : tries[i] \in {"HTTPStatusError", "RequestError"}
      /\ cpc = "request" => (attempt = n /\ n < retry_count)
      /\ cpc = "parse" => (tries[n] = "ok" /\ data = lastBody /\ ~Falsy(data))
      /\ (cpc = "done" /\ n >= 1 /\ tries[n] \in {"HTTPStatusError", "RequestError"}) =>
           (n = retry_count /\ result.kind = "raise")
      /\ cpc = "done" => result.kind \in {"return", "raise"}

\* C16 witness: a status failure, a transport failure, then a successful third
\* attempt whose days are returned.
C16_Witness ==
  /\ cpc = "done"
  /\ tries = <<"HTTPStatusError", "RequestError", "ok">>
  /\ result.kind = "return"
  /\ Len(result.days) > 0

\* C17: the error that leaves _request is an APIError; it is ConnectionError
\* after a transport failure, ResponseError after a body that is not JSON or
\* is empty, and the status error (APIError itself) after an HTTP status.
C17_ErrorClass ==
  (cpc = "done" /\ result.kind = "raise" /\ tries # <<>> /\ tries[Len(tries)] # "ok") =>
     LET last == tries[Len(tries)]
     IN  /\ result.class \in APIErrorFamily
         /\ last = "HTTPStatusError" => result.class = "APIError"
         /\ last = "RequestError" => result.class = "ConnectionError"
         /\ last \in {"badjson", "empty"} => result.class = "ResponseError"

\* a time of the form HH:MM, 00:00 to 23:59
StrictHHMM(s) ==
  /\ Len(s) = 5
  /\ \/ s[1] \in {"0", "1"} /\ s[2] \in Digit
     \/ s[1] = "2" /\ s[2] \in {"0", "1", "2", "3"}
  /\ s[3] = ":"
  /\ s[4] \in {"0", "1", "2", "3", "4", "5"}
  /\ s[5] \in Digit

\* C18: a call with a well-formed zone to which _request returned a payload
\* either returns days that all have six HH:MM times and a valid calendar
\* date, or raises ResponseError.
C18_ValidOrFormatError ==
  (cpc = "done" /\ czone = ZoneOK /\ tries # <<>> /\ tries[Len(tries)] = "ok") =>
     \/ /\ result.kind = "return"
        /\ \A i \in DOMAIN result.days :
             /\ ParsesAsDate(result.days[i].date)
             /\ \A f \in TimeFields :
                  /\ ~result.days[i].times[f].isNone
                  /\ StrictHHMM(result.days[i].times[f].s)
     \/ result.kind = "raise" /\ result.class = "ResponseError"

\* C19: with a body of a recognized shape that has elements, the call returns;
\* the days returned are those of the elements that pass, every other element
\* being skipped.
C19_PerRecordTolerance ==
  (cpc = "done" /\ Recognized(lastBody) /\ lastBody.items # <<>>) =>
     /\ result.kind = "return"
     /\ Len(result.days) =
          Cardinality({i \in DOMAIN lastBody.items :
                         ProcessItem(lastBody.items[i], lastBody).out = "day"})

\* C20: a body of a recognized shape whose array is empty or whose elements
\* are all skipped gives the empty sequence; a JSON body of any other shape
\* gives ResponseError.
C20_NoUsableDay ==
  (cpc = "done" /\ lastBody.kind \notin {"none", "notjson"}) =>
     /\ (/\ Recognized(lastBody)
         /\ \A i \in DOMAIN lastBody.items :
              ProcessItem(lastBody.items[i], lastBody).out = "skip") =>
           result = Return(<<>>)
     /\ ~Recognized(lastBody) => result = Raise("ResponseError")

(***************************************************************************)
(* Claims about HTTPClient.get_zones (checked under SpecZones)             *)
(***************************************************************************)
\* an element every required member of which is a non-blank string and whose
\* trimmed code is three capitals and two digits
UsableZone(item) ==
  /\ item.kind = "object"
  /\ \A v \in {item.daerah, item.jakimCode, item.negeri} :
       v.k = "str" /\ Strip(v.s) # <<>>
  /\ Len(Strip(item.jakimCode.s)) = 5
  /\ \A i \in 1..3 : Strip(item.jakimCode.s)[i] \in UpperCase
  /\ \A i \in 4..5 : Strip(item.jakimCode.s)[i] \in Digit

\* C21: a call of get_zones that received a JSON payload either returns a
\* non-empty collection of zones, each with a code of three capitals and two
\* digits and a non-empty trimmed name and state, or raises ResponseError; it
\* raises ResponseError when the payload is no array and when no element
\* survives, and an element with a missing or blank member is skipped.
C21_ZonesOrFormatError ==
  (cpc = "done" /\ tries # <<>> /\ tries[Len(tries)] = "ok") =>
    /\ \/ result = Raise("ResponseError")
       \/ /\ result.kind = "return"
          /\ result.days # <<>>
          /\ \A i \in DOMAIN result.days :
               LET z == result.days[i]
               IN  /\ Len(z.code) = 5
                   /\ \A j \in 1..3 : z.code[j] \in UpperCase
                   /\ \A j \in 4..5 : z.code[j] \in Digit
                   /\ z.name # <<>> /\ Strip(z.name) = z.name
                   /\ z.negeri # <<>> /\ Strip(z.negeri) = z.negeri
    /\ lastBody.kind # "array" => result = Raise("ResponseError")
    /\ (lastBody.kind = "array"
        /\ \A i \in DOMAIN lastBody.items : ~UsableZone(lastBody.items[i]))
         => result = Raise("ResponseError")
    /\ (lastBody.kind = "array"
        /\ \E i \in DOMAIN lastBody.items : UsableZone(lastBody.items[i]))
         => /\ result.kind = "return"
            /\ Len(result.days) =
                 Cardinality({i \in DOMAIN lastBody.items :
                                UsableZone(lastBody.items[i])})

(***************************************************************************)
(* Claims about HTTPClient.get_current_prayer (checked under SpecCurrent)  *)
(***************************************************************************)
\* the checkpoint times of a returned status all parse as %H:%M
AllCheckpoints(st) ==
  \A f \in TimeFields :
    ~st.prayer_times[f].isNone /\ ParseHM(st.prayer_times[f].s) >= 0

Minute(st, f) == ParseHM(st.prayer_times[f].s)

\* C22: when all six checkpoints of today's row are present, next_prayer is the
\* first of fajr, syuruk, dhuhr, asr, maghrib, isha that is strictly later than
\* the current local time and current_prayer the checkpoint just before it
\* (none before fajr); past the last one the status is isha / fajr.  With the
\* checkpoints 05:58, 07:12, 13:19, 16:25, 19:21, 20:30 the status is dhuhr /
\* asr at 16:00 and isha / fajr at 21:00.
C22_CurrentPrayer ==
  (cpc = "done" /\ result.kind = "return" /\ AllCheckpoints(result.days[1])) =>
    LET st == result.days[1]
        later == {i \in DOMAIN PrayerOrder : clock < Minute(st, PrayerOrder[i])}
        i == CHOOSE j \in later : \A k \in later : j <= k
    IN  /\ IF later = {}
             THEN st.current_prayer = "isha" /\ st.next_prayer = "fajr"
             ELSE /\ st.next_prayer = PrayerOrder[i]
                  /\ st.current_prayer =
                       IF i = 1 THEN NoPrayer ELSE PrayerOrder[i - 1]
        /\ (st.prayer_times = [f \in TimeFields |-> ToTime(DayTimes[f])]) =>
             /\ clock = 960 => st.current_prayer = "dhuhr" /\ st.next_prayer = "asr"
             /\ clock = 1260 => st.current_prayer = "isha" /\ st.next_prayer = "fajr"

\* the status dhuhr / asr is returned at 16:00 for the checkpoints above
C22_Witness ==
  /\ cpc = "done"
  /\ result.kind = "return"
  /\ clock = 960
  /\ result.days[1].prayer_times = [f \in TimeFields |-> ToTime(DayTimes[f])]
  /\ result.days[1].current_prayer = "dhuhr"
  /\ result.days[1].next_prayer = "asr"

\* C23: isha / fajr is reported only at or after the isha checkpoint, missing
\* or malformed checkpoints never bring it about earlier in the day, and the
\* current_prayer reported is a checkpoint whose time is present and not later
\* than the current time.
C23_IshaOnlyAfterIsha ==
  (cpc = "done" /\ result.kind = "return") =>
    LET st == result.days[1]
        present(f) == ~st.prayer_times[f].isNone /\ Minute(st, f) >= 0
    IN  /\ (st.current_prayer = "isha" /\ st.next_prayer = "fajr") =>
             present("isha") /\ Minute(st, "isha") <= clock
        /\ st.current_prayer # NoPrayer =>
             present(st.current_prayer) /\ Minute(st, st.current_prayer) <= clock

\* C24: the row used is the first one dated today if there is one, otherwise
\* the first one whose day number is today's, otherwise the first row; the call
\* raises ResponseError only when there are no rows.
C24_TodayRow ==
  (cpc = "done" /\ tries # <<>> /\ tries[Len(tries)] = "ok" /\ Recognized(lastBody)) =>
    LET rows == lastBody.items
        byDate == {i \in DOMAIN rows : /\ rows[i].kind = "object"
                                       /\ "date" \in rows[i].keys
                                       /\ rows[i].date = Today}
        byDay == {i \in DOMAIN rows : /\ rows[i].kind = "object"
                                      /\ "day" \in rows[i].keys
                                      /\ rows[i].day = IntVal(NowDay)}
        first(S) == CHOOSE j \in S : \A k \in S : j <= k
        pick == IF byDate # {} THEN first(byDate)
                ELSE IF byDay # {} THEN first(byDay) ELSE 1
    IN  /\ result.kind = "return" =>
             result.days[1].prayer_times = RowTimes(rows[pick])
        /\ rows = <<>> => result = Raise("ResponseError")
        /\ result = Raise("ResponseError") => rows = <<>>

(***************************************************************************)
(* Claims about the tool handlers (checked under SpecTools)                *)
(***************************************************************************)
\* C25: whatever the arguments are and whatever the operation behind it ends
\* in (a validation failure, an APIError of any class, any other exception),
\* a tool handler returns a {"content": [{"type": "text", ...}]} envelope or
\* an {"error": message} object and raises nothing; it returns the envelope
\* only when the operation returned a value.
C25_HandlersNeverRaise ==
  tool.name # "" =>
    /\ \/ tool.ret.kind = "content" /\ tool.ret.type = "text"
       \/ tool.ret.kind = "error" /\ tool.ret.error # ""
    /\ tool.ret.kind = "content" => tool.outcome = "value"

\* a handler has answered {"error": ...} to an exception that is no APIError
C25_Witness ==
  /\ tool.name = "get_current_prayer"
  /\ tool.args = Args("object", JStr(ZoneOK))
  /\ tool.outcome = "TypeError"
  /\ tool.ret.kind = "error"

\* C34: for a zone argument that is missing or does not match the zone
\* pattern, a zone tool fails with ValidationError, which the handler reports
\* as {"error": message}, before the cached operation is called: whatever the
\* operation would do, no cache access and no HTTP request is made.
\* (Checked under SpecTools.)
C34_ValidationBeforeIO ==
  (/\ tool # NoToolCall
   /\ tool.name # "list_zones"
   /\ tool.args.kind = "object"
   /\ ~(tool.args.zone.k = "str" /\ MatchesZone(tool.args.zone.s))) =>
     /\ RaisedInTry(tool.name, tool.args, tool.outcome) = "ValidationError"
     /\ tool.ret = ErrorObject("str(e)")
     /\ \A o \in Outcomes : HandlerReturn(tool.name, tool.args, o) = tool.ret

(***************************************************************************)
(* Claims about the cached operations (checked under SpecCached)           *)
(***************************************************************************)
\* the entry stored under key k, as a set of at most one value
StoredValue(s, k) == {s[i].value : i \in {j \in DOMAIN s : s[j].key = k}}

\* C26: a call of an operation for a zone that follows a stored result of the
\* same operation and zone by less than the operation's TTL (3600 s for prayer
\* days, 86400 s for zones, 60 s for the current status), no capacity eviction
\* in between, returns that result from the cache without calling upstream;
\* once the TTL has elapsed the call goes upstream again; and a call is never
\* served by what another operation or another zone stored.
C26_HandlerCaching ==
  \A u \in Callers :
    LET c == callers[u]
        ttl == CASE c.op.name = "get_prayer_times" -> 3600
                 [] c.op.name = "list_zones" -> 86400
                 [] c.op.name = "get_current_prayer" -> 60
        fresh == c.seen.stored /\ c.seen.live /\ c.at < c.seen.at + ttl
    IN  c.pc \in {"call", "done"} =>
          /\ fresh => c.pc = "done" /\ c.src = "cache" /\ c.value = c.seen.value
          /\ (c.seen.stored /\ c.at >= c.seen.at + ttl) => c.src # "cache"
          /\ ~c.seen.stored => c.src # "cache"

\* the current status stored by one caller is served to the other 59 s later
C26_Witness ==
  /\ callers["a"].pc = "done" /\ callers["a"].src = "upstream"
  /\ callers["a"].op = Req("7", "callTool", "get_current_prayer", ZoneOK)
  /\ callers["b"].pc = "done" /\ callers["b"].src = "cache"
  /\ callers["b"].op = callers["a"].op
  /\ callers["b"].value = callers["a"].value
  /\ callers["b"].at = callers["b"].seen.at + 59

\* C30: callers of the same cached operation with the same key that both miss
\* before either has stored are not merged: each runs the wrapped operation
\* itself and returns its own result, and each stores its result under the
\* key, so the later store replaces the earlier one.
C30_NoSingleFlight ==
  /\ [](\A u \in Callers :
          /\ callers[u].src = "upstream" => callers[u].value = ValueOf(callers[u].n)
          /\ callers[u].src = "cache" => callers[u].value = callers[u].seen.value)
  /\ [][\A u \in Callers :
          (callers[u].pc = "call" /\ callers'[u].pc = "done"
           /\ callers'[u].src = "upstream")
            => StoredValue(store', CacheKeyOf(callers[u].op)) = {ValueOf(callers[u].n)}]_vars

\* both callers missed on the same key, each computed a result of its own, and
\* the cache holds the one stored last
C30_Witness ==
  /\ callers["a"].pc = "done" /\ callers["a"].src = "upstream"
  /\ callers["b"].pc = "done" /\ callers["b"].src = "upstream"
  /\ callers["a"].op = callers["b"].op
  /\ ~callers["a"].seen.stored /\ ~callers["b"].seen.stored
  /\ callers["a"].value # callers["b"].value
  /\ cLast.op = "set"
  /\ StoredValue(store, CacheKeyOf(callers["a"].op)) = {cSet.value}
  /\ cSet.value = callers["b"].value
  /\ callers["a"].n > callers["b"].n

\* C38: when the operation wrapped by `cached` raises, nothing is written for
\* its key and the cache is left as it was, so the next call with the same key
\* runs the operation again; the values in the cache are values the operation
\* returned, each stored under the TTL given to its wrapper.
\* (Checked under SpecCached.)
C38_FailuresNotCached ==
  /\ [][\A u \in Callers :
          (callers[u].pc = "call" /\ callers'[u].src = "raise") =>
             UNCHANGED <<cacheVars, kept>>]_vars
  /\ [](\A i \in DOMAIN store :
          \E u \in Callers :
            /\ callers[u].src = "upstream"
            /\ CacheKeyOf(callers[u].op) = store[i].key
            /\ store[i].value = ValueOf(callers[u].n)
            /\ store[i].expires_at = kept[store[i].key].at + TTLOf(callers[u].op))
  /\ [](\A u, v \in Callers :
          (/\ callers[u].src = "raise"
           /\ callers[v].pc \in {"call", "done"}
           /\ callers[v].n > callers[u].n
           /\ CacheKeyOf(callers[v].op) = CacheKeyOf(callers[u].op)
           /\ ~callers[v].seen.stored) => callers[v].src # "cache")

\* C38 witness: the operation raised for one caller, and the other caller's
\* later call with the same key found nothing stored and ran it again.
C38_Witness ==
  /\ callers["a"].pc = "done" /\ callers["a"].src = "raise"
  /\ callers["b"].pc = "done" /\ callers["b"].src = "upstream"
  /\ callers["b"].op = callers["a"].op
  /\ callers["b"].n > callers["a"].n
  /\ ~callers["b"].seen.stored
  /\ StoredValue(store, CacheKeyOf(callers["b"].op)) = {callers["b"].value}

(***************************************************************************)
(* Claims about the HTTP connection resource                               *)
(***************************************************************************)
\* C27: over a run of the server the client's HTTP connection resource is
\* acquired once, is not released while the dispatcher is running, is released
\* exactly once, during shutdown, and no request is issued on a released
\* resource.  (Checked under Spec.)
C27_ConnectionLifetime ==
  /\ [](tpc = "upstream" => httpClient = "open")
  /\ [](Stopped => httpClient = "closed")
  /\ [][httpClient' # httpClient =>
          /\ httpClient = "open"
          /\ ~Running
          /\ pc = "cleanup"]_vars

\* C28: when two units of work use the global client at the same time, each
\* inside its own `async with client`, one unit leaving its scope never makes
\* a request of the other run against an absent connection and fail for it.
\* (Checked under SpecPool.)
C28_SharedClientSafe ==
  \A u \in Units : ~scopes[u].absent

(***************************************************************************)
(* Claims about main()                                                     *)
(***************************************************************************)
\* C29: main() exits with code 0 after a graceful shutdown and with a
\* non-zero code on a fatal startup or configuration error, invalid
\* configuration values included; it never retries such an error and never
\* runs the server on it.  (Checked under SpecMain.)
C29_ExitCodes ==
  /\ (mpc = "exited" /\ pc = "done") => exitCode = 0
  /\ exitCode = 1 => env # "valid"
  /\ env # "valid" => (mpc \in {"start", "exited"} /\ restarts = 0)

(***************************************************************************)
(* Claims about the cache called from several threads                      *)
(***************************************************************************)
\* C31: get, set, delete and clear called from concurrent threads are atomic
\* with respect to each other: only the thread holding the lock is inside an
\* operation, and what each operation leaves in the store and returns is what
\* it would leave and return run alone on the store it found when it took the
\* lock (so no get sees a store in the middle of a purge or an eviction).
\* (Checked under SpecThreads.)
C31_CacheAtomic ==
  /\ [](\A t \in Threads : InCritical(t) => lock = t)
  /\ [][\A t \in Threads :
          LET th == threads[t]
              alone == CleanExpired(th.snap, th.at)
          IN  threads'[t].pc = "release" =>
                CASE th.pc = "put" ->
                       store' = Put(EnsureCapacity(alone), th.key, th.value, now + th.ttl)
                  [] th.pc = "lookup" ->
                       /\ store' = LookupStore(alone, th.key, now)
                       /\ threads'[t].ret = LookupValue(alone, th.key, now)
                  [] th.pc = "pop" -> store' = Without(th.snap, {th.key})
                  [] th.pc = "wipe" -> store' = <<>>
                  [] OTHER -> TRUE]_vars

\* C31 witness: one thread is inside set(), past the purge, while the other
\* waits for the lock with a get() of a stored key.
C31_Witness ==
  \E t, u \in Threads :
    /\ threads[t].pc = "put"
    /\ threads[u].pc = "wait"
    /\ threads[u].op = "get"
    /\ threads[u].key \in KeysOf(store)
    /\ lock = t

(***************************************************************************)
(* Further claims about the cache (checked under SpecCache)                *)
(***************************************************************************)
\* C32: a get(k) on an entry whose expiry has passed returns absent and
\* removes the entry from the store, and once a get or a set has run the
\* store holds no entry whose expires_at is at or before the instant the
\* operation read for its purge.
C32_LazyEviction ==
  [][(cLast'.op \in {"get", "set"} /\ cacheVars' # cacheVars) =>
       /\ \A i \in DOMAIN store' : store'[i].expires_at > now
       /\ (cLast'.op = "get" /\ \E i \in DOMAIN store :
              store[i].key = cLast'.key /\ store[i].expires_at <= now') =>
             (cLast'.ret = None /\ cLast'.key \notin KeysOf(store'))]_vars

\* C32 witness: a get of a key whose ttl has run out since it was set has
\* returned absent and the key is no longer in the store.
C32_Witness ==
  /\ cLast.op = "get"
  /\ cLast.after.key = cLast.key
  /\ cLast.at >= cLast.after.at + cLast.after.ttl
  /\ cLast.ret = None
  /\ cLast.key \notin KeysOf(store)
  /\ store # <<>>

C37_OverwriteKeepsOthers ==
  (cLast.op = "set" /\ \E i \in DOMAIN cLast.before : cLast.before[i] = cLast.key) =>
     cLast.evicted \subseteq {cLast.key}

(***************************************************************************)
(* Claims about the ttl of Cache.set (checked under SpecArgs)              *)
(***************************************************************************)
\* C33: set with a ttl argument that is zero or negative raises ValueError and
\* leaves the store as it was: no entry is added, replaced, purged or evicted.
C33_BadTTLRejected ==
  [][\A k \in ArgKeys, ttl \in BadTTLs :
       SetArg(k, "v1", ttl) =>
         /\ cLast'.op = "set_raised"
         /\ cLast'.class = "ValueError"
         /\ store' = store]_vars

\* C33 witness: a rejected set found the store full with an expired entry in
\* it, and both entries are still there.
C33_Witness ==
  /\ cLast.op = "set_raised"
  /\ Len(store) = max_size
  /\ \E i \in DOMAIN store : store[i].expires_at <= now

\* C39: every entry the cache stores expires strictly later than the instant
\* it was inserted, under an explicit ttl and under every default ttl the
\* configuration permits, so a get at the instant of the set returns the value.
C39_ExpiryAfterInsertion ==
  /\ \A i \in DOMAIN store :
       store[i].key = cSet.key => store[i].expires_at > cSet.at
  /\ (cLast.op = "get" /\ cLast.after.key = cLast.key /\ cLast.at = cLast.after.at) =>
        cLast.ret = cLast.after.value

(***************************************************************************)
(* Claims about the rate-limiting gate (checked under SpecGate)            *)
(***************************************************************************)
\* C36: a line rejected by RateLimiter.is_allowed leaves the limiter's buckets
\* as they were, so it does not postpone the instant the client is allowed
\* again, and it is not dispatched to a handler; a line that fails JSON
\* parsing leaves the limiter untouched.
C36_RejectionHasNoEffect ==
  [][nlines' = nlines + 1 =>
       /\ (nout' = nout + 1 /\ lastOut'.message = "Rate limit exceeded") =>
            /\ requests' = requests
            /\ rlHist' = rlHist
            /\ ~rlLast'.allowed
            /\ ~lastOut'.dispatched
            /\ UNCHANGED <<cur, tpc, tres, active, cacheVars, httpClient>>
       /\ (nout' = nout + 1 /\ lastOut'.message = "Invalid JSON request") =>
            UNCHANGED rlVars]_vars

\* C36 witness: two lines were let through at one instant, a third was
\* rejected at a later instant inside the window, and the bucket still holds
\* the two instants only.
C36_Witness ==
  /\ lastOut.message = "Rate limit exceeded"
  /\ nout = nlines
  /\ ~rlLast.allowed
  /\ rlLast.at > 0
  /\ requests[rlLast.client] = <<0, 0>>

====
